---------------------------- MODULE Spec2Model ----------------------------
(***************************************************************************)
(* State-machine model of the VideoDepthViewer3D backend: the drop-oldest  *)
(* intake queue, the adaptive quality controller of a session, the decoder *)
(* pool, the inference gate of the depth model and the per-connection      *)
(* streaming pipeline (receiver, processor, pipeline tasks, sender).       *)
(*                                                                         *)
(* The module holds several specifications over one set of variables; each *)
(* specification drives one component and leaves the others in their       *)
(* initial state.                                                          *)
(*   SpecQueue   backend/utils/queues.py   DroppingQueue                   *)
(*   SpecCtl     backend/video/session.py  update_telemetry/adjust_quality *)
(*   SpecPool    backend/video/io.py       DecoderPool                     *)
(*   SpecInfer   backend/models/depth_model.py  infer_depth_async          *)
(*   SpecStream  backend/routers/stream.py depth_stream                    *)
(***************************************************************************)
EXTENDS Integers, Sequences, FiniteSets, TLC

\* ------------------------------------------------------------------ bounds
\* largest queue capacity tried (the stream uses 32, see REQUEST_QUEUE_SIZE)
MaxCap == 3
\* put_nowait calls in one run of the queue specification
MaxPuts == 5
\* number of distinct item values put into the queue
NItems == 2
\* the video of the pool specification: NFrames frames, FrameMs apart, a keyframe every GopFrames
NFrames == 4
FrameMs == 500
GopFrames == 2
\* decoders in the pool (create_session builds 16), calling threads, calls in one run
NDecoders == 2
NThreads == 3
MaxPoolCalls == 4
\* largest inference_worker_count tried (default 3), pipeline tasks calling infer_depth_async
MaxWorkers == 2
NCallers == 4
\* requests the client sends on one connection
MaxRequests == 3
\* depth cache: largest capacity tried, frames stored per run
MaxCacheCap == 3
MaxStores == 4
\* depth payload: the z values tried are -1..MaxZ steps of ZStep units, the pixels
\* -MaxPix..MaxPix steps of PixStep units
MaxZ == 3
ZStep == 250
MaxPix == 10
PixStep == 125
\* the uploads (create_session calls) of one run of the server
NUploads == 3

VARIABLES
    dq,         \* queue spec: the DroppingQueue object under test
    run_ok,     \* queue spec (history): no get/reset since the queue was last empty with dropped_count 0
    run_log,    \* queue spec (history): the items put during the current run, oldest first
    depth_process_res,  \* settings.depth_process_res (VIDEO_DEPTH_PROCESS_RES)
    session,    \* controller spec: the VideoSession fields the controller reads and writes
    since_change,   \* controller spec (history): update_telemetry calls completed after the last change, -1 before the first
    n_changes,  \* controller spec (history): changes of the resolution so far, capped at 2
    decoders,       \* pool spec: DecoderPool._decoders, the state of each FrameDecoder
    free_decoders,  \* pool spec: DecoderPool._free_decoders, oldest release first
    pool_waiters,   \* pool spec: threads blocked in DecoderPool._cond.wait(), oldest first
    th,             \* pool spec: each calling thread's position, call and decoder held
    pool_calls,     \* pool spec: calls started so far
    released,   \* pool spec (history): the free decoders that were released, the latest release last
    pool_closed,    \* pool spec: DecoderPool.close() has run: every decoder of the pool is closed
    max_workers,    \* inference spec: DepthModel._max_workers (settings.inference_worker_count)
    semaphore,      \* inference spec: DepthModel._semaphore, its free slots, NoValue while None
    inf_pc,         \* inference spec: each pipeline task's position in infer_depth_async
    inf_job,        \* inference spec: the executor job running infer_depth for each task
    stop,           \* stream spec: the asyncio.Event stop
    ws,             \* stream spec: the websocket, "open" or "closed" by the client
    session_present,    \* stream spec: manager.get(session_id) finds the session
    request_queue,  \* stream spec: the intake DroppingQueue of request numbers
    n_received,     \* stream spec: requests read by the receiver so far
    receiver_pc,    \* stream spec: receiver task
    processor,      \* stream spec: processor task, its request and the tasks it waits for at the cap
    active_tasks,   \* stream spec: the set active_tasks
    send_queue,     \* stream spec: the ordered send queue of task handles
    task,           \* stream spec: each pipeline task's position or outcome
    sender,         \* stream spec: sender task and the handle it holds
    reporter_pc,    \* stream spec: stats_reporter task
    main_pc,        \* stream spec: depth_stream itself, waiting for stop or returned
    before_main,    \* stream spec: the steps scheduled ahead of depth_stream's wake-up after stop.set()
    drop_count,     \* stream spec: session.rolling_stats["drop_count"]
    error_sent,     \* stream spec: the "session not found" message was written
    sent,           \* stream spec (history): the binary payloads written, by request number
    leaked,         \* stream spec (history): a payload was written while stop was set
    dequeued,       \* stream spec (history): the requests in the order the processor dequeued them
    video_cache_size,   \* cache spec: settings.video_cache_size, the maxlen of depth_buffer
    depth_buffer,   \* cache spec: session.depth_buffer, oldest frame first
    last_depth_time_ms, \* cache spec: session.last_depth_time_ms
    n_stores,       \* cache spec: frames stored so far
    cache_call,     \* cache spec (history): the call made last and its result
    fd,             \* decoder spec: one FrameDecoder used alone
    fd_call,        \* decoder spec (history): the last two decode_at calls and the frames they returned
    pk,             \* payload spec (history): the pack_depth_payload call made last, one pixel of it
    overtaken,      \* stream spec (history): a task ended with a payload after a later request's task did
    telemetry,      \* stream spec: the keys of session.telemetry among queue_wait_s, pack_s, total_s, ws_send_s
    default_root,   \* manager spec: settings.data_root resolves to tmp/sessions
    sessions,       \* manager spec: SessionManager._sessions, as the set of its session ids
    closed_pools,   \* manager spec: the sessions whose decoder pool has had close() called
    popped,         \* manager spec (history): the session ids taken out of _sessions
    creating        \* manager spec: the position of each create_session call

qvars == <<dq, run_ok, run_log>>
cvars == <<depth_process_res, session, since_change, n_changes>>
pvars == <<decoders, free_decoders, pool_waiters, th, pool_calls, released, pool_closed>>
ivars == <<max_workers, semaphore, inf_pc, inf_job>>
svars == <<stop, ws, session_present, request_queue, n_received, receiver_pc,
           processor, active_tasks, send_queue, task, sender, reporter_pc,
           main_pc, before_main, drop_count, error_sent,
           sent, leaked, dequeued, overtaken, telemetry>>
kvars == <<video_cache_size, depth_buffer, last_depth_time_ms, n_stores, cache_call>>
dvars == <<fd, fd_call>>
xvars == <<pk>>
mvars == <<default_root, sessions, closed_pools, popped, creating>>
vars == <<qvars, cvars, pvars, ivars, svars, kvars, dvars, xvars, mvars>>

\* ------------------------------------------------------------ small helpers
Min2(a, b) == IF a <= b THEN a ELSE b
Max2(a, b) == IF a >= b THEN a ELSE b
Abs(a) == IF a >= 0 THEN a ELSE 0 - a
\* Python's None, and a dict key that is absent
NoValue == 0 - 1
\* the last k elements of s, in order
LastK(s, k) == SubSeq(s, Max2(1, Len(s) - k + 1), Len(s))

\* ------------------------------------------------------------ DroppingQueue
\* DroppingQueue.__init__
DroppingQueue(K) == [maxsize |-> K, queue |-> <<>>, dropped_count |-> 0]

\* mutant: a full queue rejects the new item instead of evicting the oldest
put_nowait_dropnew(self, item) ==
    IF self.maxsize > 0 /\ Len(self.queue) >= self.maxsize
    THEN [self EXCEPT !.dropped_count = @ + 1]
    ELSE [self EXCEPT !.queue = Append(@, item)]

\* mutant: the fullness test is off by one (> instead of >=)
put_nowait_offbyone(self, item) ==
    IF self.maxsize > 0 /\ Len(self.queue) > self.maxsize
    THEN [self EXCEPT !.queue = Append(Tail(@), item), !.dropped_count = @ + 1]
    ELSE [self EXCEPT !.queue = Append(@, item)]

\* DroppingQueue.put_nowait: evict the oldest when full, then append
put_nowait(self, item) ==
    IF self.maxsize > 0 /\ Len(self.queue) >= self.maxsize
    THEN [self EXCEPT !.queue = Append(Tail(@), item), !.dropped_count = @ + 1]
    ELSE [self EXCEPT !.queue = Append(@, item)]

\* DroppingQueue.get can return only when the queue is not empty
get_ready(self) == self.queue # <<>>
\* DroppingQueue.get: the item returned, and the queue afterwards
get_item(self) == Head(self.queue)
get_rest(self) == [self EXCEPT !.queue = Tail(@)]
\* mutant: the counter is left as it is
reset_dropped_count_keep(self) == self
\* DroppingQueue.reset_dropped_count
reset_dropped_count(self) == [self EXCEPT !.dropped_count = 0]
\* DroppingQueue.qsize
qsize(self) == Len(self.queue)

Items == 1..NItems

\* everything outside the queue specification
NotQueue == <<cvars, pvars, ivars, svars, kvars, dvars, xvars, mvars>>

\* a producer calls put_nowait(item)
QPut(item) ==
    /\ Len(dq.queue) < MaxPuts
    /\ dq.dropped_count < MaxPuts
    /\ Len(run_log) < MaxPuts
    /\ dq' = put_nowait(dq, item)
    /\ run_log' = IF run_ok THEN Append(run_log, item) ELSE run_log
    /\ UNCHANGED run_ok
    /\ UNCHANGED NotQueue

\* the consumer's get() returns
QGet ==
    /\ get_ready(dq)
    /\ dq' = get_rest(dq)
    /\ run_ok' = (dq'.queue = <<>> /\ dq'.dropped_count = 0)
    /\ run_log' = <<>>
    /\ UNCHANGED NotQueue

\* the consumer calls reset_dropped_count()
QReset ==
    /\ dq.dropped_count > 0
    /\ dq' = reset_dropped_count(dq)
    /\ run_ok' = (dq.queue = <<>>)
    /\ run_log' = <<>>
    /\ UNCHANGED NotQueue

QNext ==
    \/ \E item \in Items : QPut(item)
    \/ QGet
    \/ QReset

\* ------------------------------------------- session telemetry and controller
\* Durations are fixed-point numbers: infer_s and infer_avg_s count units of
\* 20 ms, queue_wait_s and queue_avg_s units of 50 ms, latency_ms units of 100 ms.
\* telemetry["quality_process_res"] is NoValue while the key is absent.

\* adjust_quality: all_steps
all_steps == <<960, 720, 640, 512, 480, 384, 320>>
\* adjust_quality: thresholds (0.20 s and 0.08 s in units of 20 ms, 0.30 s and
\* 0.10 s in units of 50 ms, 500 ms and 200 ms in units of 100 ms)
UP_THRESHOLD == 10
DOWN_THRESHOLD == 4
QUEUE_UP_THRESHOLD == 6
QUEUE_DOWN_THRESHOLD == 2
LATENCY_UP_THRESHOLD == 5
LATENCY_DOWN_THRESHOLD == 2
\* adjust_quality: the cooldown set on a change
QUALITY_COOLDOWN == 60
\* update_telemetry: alpha = 0.1 as ALPHA_NUM / ALPHA_DEN
ALPHA_NUM == 1
ALPHA_DEN == 10

\* VideoSession as constructed: rolling_stats at 0.0, no telemetry, cooldown 0
NewSession ==
    [quality_process_res |-> NoValue,
     quality_cooldown |-> 0,
     infer_avg_s |-> 0,
     queue_avg_s |-> 0,
     latency_ms |-> 0]

\* the resolution a pipeline task reads: telemetry.get("quality_process_res", settings.depth_process_res)
process_res(self, max_res) ==
    IF self.quality_process_res = NoValue THEN max_res ELSE self.quality_process_res

\* mutant: the ladder is not clamped to the configured maximum
steps_for_unclamped(max_res) == all_steps

\* adjust_quality: steps = [s for s in all_steps if s <= max_res], or [max_res] when that is empty
steps_for(max_res) ==
    LET keep(s) == s <= max_res
        filtered == SelectSeq(all_steps, keep)
    IN  IF filtered = <<>> THEN <<max_res>> ELSE filtered

\* adjust_quality: steps.index(min(steps, key=lambda x: abs(x - current_res))), 1-based;
\* min returns the first of several equally close steps
closest_idx(steps, current_res) ==
    CHOOSE i \in 1..Len(steps) :
        /\ \A j \in 1..Len(steps) : Abs(steps[i] - current_res) <= Abs(steps[j] - current_res)
        /\ \A j \in 1..(i - 1) : Abs(steps[j] - current_res) > Abs(steps[i] - current_res)

\* update_telemetry: one exponential moving average step,
\* alpha * val + (1 - alpha) * current = current + alpha * (val - current).
\* In fixed point the step alpha * (val - current) is rounded away from zero, so
\* that, as in floating point, the average keeps moving toward a constant sample.
ema(current, val) ==
    IF current = 0 THEN val
    ELSE IF val >= current
    THEN current + ((val - current) * ALPHA_NUM + ALPHA_DEN - 1) \div ALPHA_DEN
    ELSE current - ((current - val) * ALPHA_NUM + ALPHA_DEN - 1) \div ALPHA_DEN

\* mutant: a demotion drops two ladder steps at once
new_idx_for_skip(self, steps, current_idx) ==
    IF \/ self.infer_avg_s > UP_THRESHOLD
       \/ self.queue_avg_s > QUEUE_UP_THRESHOLD
       \/ self.latency_ms > LATENCY_UP_THRESHOLD
    THEN Min2(current_idx + 2, Len(steps))
    ELSE IF /\ self.infer_avg_s < DOWN_THRESHOLD
            /\ self.queue_avg_s < QUEUE_DOWN_THRESHOLD
            /\ self.latency_ms < LATENCY_DOWN_THRESHOLD
    THEN (IF current_idx > 1 THEN current_idx - 1 ELSE current_idx)
    ELSE current_idx

\* mutant: a demotion needs all three metrics above their thresholds
new_idx_for_demote_all(self, steps, current_idx) ==
    IF /\ self.infer_avg_s > UP_THRESHOLD
       /\ self.queue_avg_s > QUEUE_UP_THRESHOLD
       /\ self.latency_ms > LATENCY_UP_THRESHOLD
    THEN (IF current_idx < Len(steps) THEN current_idx + 1 ELSE current_idx)
    ELSE IF /\ self.infer_avg_s < DOWN_THRESHOLD
            /\ self.queue_avg_s < QUEUE_DOWN_THRESHOLD
            /\ self.latency_ms < LATENCY_DOWN_THRESHOLD
    THEN (IF current_idx > 1 THEN current_idx - 1 ELSE current_idx)
    ELSE current_idx

\* mutant: a promotion needs only one metric below its threshold
new_idx_for_promote_any(self, steps, current_idx) ==
    IF \/ self.infer_avg_s > UP_THRESHOLD
       \/ self.queue_avg_s > QUEUE_UP_THRESHOLD
       \/ self.latency_ms > LATENCY_UP_THRESHOLD
    THEN (IF current_idx < Len(steps) THEN current_idx + 1 ELSE current_idx)
    ELSE IF \/ self.infer_avg_s < DOWN_THRESHOLD
            \/ self.queue_avg_s < QUEUE_DOWN_THRESHOLD
            \/ self.latency_ms < LATENCY_DOWN_THRESHOLD
    THEN (IF current_idx > 1 THEN current_idx - 1 ELSE current_idx)
    ELSE current_idx

\* mutant: the promotion is tested first, on queue wait and latency only
new_idx_for_promote_first(self, steps, current_idx) ==
    IF /\ self.queue_avg_s < QUEUE_DOWN_THRESHOLD
       /\ self.latency_ms < LATENCY_DOWN_THRESHOLD
    THEN (IF current_idx > 1 THEN current_idx - 1 ELSE current_idx)
    ELSE IF \/ self.infer_avg_s > UP_THRESHOLD
            \/ self.queue_avg_s > QUEUE_UP_THRESHOLD
            \/ self.latency_ms > LATENCY_UP_THRESHOLD
    THEN (IF current_idx < Len(steps) THEN current_idx + 1 ELSE current_idx)
    ELSE current_idx

\* adjust_quality: the index the controller moves to from current_idx
new_idx_for(self, steps, current_idx) ==
    IF \/ self.infer_avg_s > UP_THRESHOLD
       \/ self.queue_avg_s > QUEUE_UP_THRESHOLD
       \/ self.latency_ms > LATENCY_UP_THRESHOLD
    THEN (IF current_idx < Len(steps) THEN current_idx + 1 ELSE current_idx)
    ELSE IF /\ self.infer_avg_s < DOWN_THRESHOLD
            /\ self.queue_avg_s < QUEUE_DOWN_THRESHOLD
            /\ self.latency_ms < LATENCY_DOWN_THRESHOLD
    THEN (IF current_idx > 1 THEN current_idx - 1 ELSE current_idx)
    ELSE current_idx

\* mutant: the cooldown is set by every update made with cooldown 0
adjust_quality_rearm(self, max_res) ==
    IF self.quality_cooldown > 0
    THEN [self EXCEPT !.quality_cooldown = @ - 1]
    ELSE
        LET current_res == process_res(self, max_res)
            steps == steps_for(max_res)
            current_idx == closest_idx(steps, current_res)
            new_res == steps[new_idx_for(self, steps, current_idx)]
        IN  [self EXCEPT !.quality_process_res = new_res,
                         !.quality_cooldown = QUALITY_COOLDOWN]

\* mutant: a change sets the cooldown to 30 updates (the figure of the code comment)
adjust_quality_cooldown30(self, max_res) ==
    IF self.quality_cooldown > 0
    THEN [self EXCEPT !.quality_cooldown = @ - 1]
    ELSE
        LET current_res == process_res(self, max_res)
            steps == steps_for(max_res)
            current_idx == closest_idx(steps, current_res)
            new_res == steps[new_idx_for(self, steps, current_idx)]
        IN  IF new_res # current_res
            THEN [self EXCEPT !.quality_process_res = new_res,
                              !.quality_cooldown = 30]
            ELSE [self EXCEPT !.quality_process_res = current_res]

\* VideoSession.adjust_quality
adjust_quality(self, max_res) ==
    IF self.quality_cooldown > 0
    THEN [self EXCEPT !.quality_cooldown = @ - 1]
    ELSE
        LET current_res == process_res(self, max_res)
            steps == steps_for(max_res)
            current_idx == closest_idx(steps, current_res)
            new_res == steps[new_idx_for(self, steps, current_idx)]
        IN  IF new_res # current_res
            THEN [self EXCEPT !.quality_process_res = new_res,
                              !.quality_cooldown = QUALITY_COOLDOWN]
            ELSE [self EXCEPT !.quality_process_res = current_res]

\* VideoSession.update_telemetry: metrics is a record; a key that is absent from
\* the dict is given as NoValue
update_telemetry(self, metrics, max_res) ==
    LET upd ==
            [self EXCEPT
                !.infer_avg_s = IF metrics.infer_s = NoValue THEN @ ELSE ema(@, metrics.infer_s),
                !.queue_avg_s = IF metrics.queue_wait_s = NoValue THEN @ ELSE ema(@, metrics.queue_wait_s),
                !.latency_ms = IF metrics.latency_ms = NoValue THEN @ ELSE ema(@, metrics.latency_ms)]
    IN  adjust_quality(upd, max_res)

\* the configurations tried: below the ladder, one ladder step only, between
\* two ladder steps, the default (a ladder step)
ProcessResChoices == {300, 330, 600, 640}
\* the samples reported: inference 60 ms or 300 ms, queue wait 50 ms or 350 ms,
\* round trip 100 ms or 600 ms
InferSamples == {3, 15}
QueueSamples == {1, 7}
RttSamples == {1, 6}

Metrics(i, q, l) == [infer_s |-> i, queue_wait_s |-> q, latency_ms |-> l]

\* the telemetry reports the stream issues (stream.py):
\*   a pipeline task after a cache miss (queue_wait_s, decode_s, infer_s, pack_s, total_s),
\*   a pipeline task after a cache hit (queue_wait_s, pack_s, total_s),
\*   the processor's {"latency_ms": rtt} and {"dropped": n}.
\* Keys other than the three below feed rolling_stats entries the controller never reads.
Reports ==
    {Metrics(i, q, NoValue) : i \in InferSamples, q \in QueueSamples}
    \cup {Metrics(NoValue, q, NoValue) : q \in QueueSamples}
    \cup {Metrics(NoValue, NoValue, l) : l \in RttSamples}
    \cup {Metrics(NoValue, NoValue, NoValue)}

\* did the resolution that pipeline tasks read change from self to next
res_changed(self, next, max_res) == process_res(next, max_res) # process_res(self, max_res)

\* everything outside the controller specification
NotCtl == <<qvars, pvars, ivars, svars, kvars, dvars, xvars, mvars>>

\* one call of session.update_telemetry(metrics)
CUpdate(metrics) ==
    /\ session' = update_telemetry(session, metrics, depth_process_res)
    /\ IF res_changed(session, session', depth_process_res)
       THEN /\ since_change' = 0
            /\ n_changes' = Min2(n_changes + 1, 2)
       ELSE /\ since_change' = IF since_change < 0 THEN since_change
                               ELSE Min2(since_change + 1, QUALITY_COOLDOWN)
            /\ UNCHANGED n_changes
    /\ UNCHANGED depth_process_res
    /\ UNCHANGED NotCtl

CNext == \E metrics \in Reports : CUpdate(metrics)

\* the scenario of a constant slow inference: every report that carries infer_s
\* carries the slow sample (0.3 s); the other reports are as before
SlowInfer == CHOOSE i \in InferSamples : \A j \in InferSamples : i >= j
SlowReports == {m \in Reports : m.infer_s \in {NoValue, SlowInfer}}
SlowNext == \E metrics \in SlowReports : CUpdate(metrics)

\* --------------------------------------------------------------- FrameDecoder
\* FrameDecoder.STREAM_WINDOW_MS, FrameDecoder.MAX_SCAN_FRAMES
STREAM_WINDOW_MS == 1000
MAX_SCAN_FRAMES == 360

\* The video is frames 1..NFrames; frame i is presented at frame_time(i) and is a
\* keyframe when is_key(i). A decoder is the container position pos (the next
\* frame its iterator yields, NFrames + 1 at the end of the stream) and
\* _last_frame_time_ms.
frame_time(i) == (i - 1) * FrameMs
is_key(i) == (i - 1) % GopFrames = 0

\* FrameDecoder.__init__
NewDecoder == [pos |-> 1, last_frame_time_ms |-> NoValue]

\* FrameDecoder.should_stream_forward
should_stream_forward(d, time_ms) ==
    /\ d.last_frame_time_ms # NoValue
    /\ 0 <= time_ms - d.last_frame_time_ms
    /\ time_ms - d.last_frame_time_ms <= STREAM_WINDOW_MS

\* FrameDecoder._seek_near: back to the closest keyframe at or before time_ms
seek_near(d, time_ms) ==
    LET keys == {i \in 1..NFrames : is_key(i) /\ frame_time(i) <= time_ms}
        k == CHOOSE i \in keys : \A j \in keys : j <= i
    IN  [pos |-> k, last_frame_time_ms |-> NoValue]

\* FrameDecoder._advance_to: the decoder afterwards and the frame returned
\* (0 when the iterator is exhausted first and StopIteration is raised)
advance_to(d, time_ms) ==
    LET stop_at == {i \in d.pos..NFrames :
                        frame_time(i) >= time_ms \/ i - d.pos + 1 >= MAX_SCAN_FRAMES}
    IN  IF stop_at = {}
        THEN [dec |-> [pos |-> NFrames + 1,
                       last_frame_time_ms |-> IF d.pos <= NFrames THEN frame_time(NFrames)
                                              ELSE d.last_frame_time_ms],
              frame |-> 0]
        ELSE LET f == CHOOSE i \in stop_at : \A j \in stop_at : i <= j
             IN  [dec |-> [pos |-> f + 1, last_frame_time_ms |-> frame_time(f)],
                  frame |-> f]

\* FrameDecoder.decode_at
decode_at(d, time_ms) ==
    LET t == Max2(time_ms, 0)
    IN  advance_to(IF should_stream_forward(d, t) THEN d ELSE seek_near(d, t), t)

\* ---------------------------------------------------------------- DecoderPool
Decoders == 1..NDecoders
Threads == 1..NThreads
\* the timestamps requested: the first frame, the second, the last, one past the end
TimeChoices == {0, FrameMs, (NFrames - 1) * FrameMs, (NFrames + 1) * FrameMs}

RemoveAt(s, i) == SubSeq(s, 1, i - 1) \o SubSeq(s, i + 1, Len(s))
Range(s) == {s[i] : i \in 1..Len(s)}

\* mutant: the last decoder of the free list is taken whatever its position
pool_select_last(free, decs, time_ms) ==
    [dec |-> free[Len(free)], free |-> SubSeq(free, 1, Len(free) - 1)]

\* mutant: the decoder chosen is left in the free list
pool_select_keep(free, decs, time_ms) ==
    LET fit == {i \in 1..Len(free) : should_stream_forward(decs[free[i]], time_ms)}
    IN  IF fit # {}
        THEN [dec |-> free[CHOOSE i \in fit : \A j \in fit : i <= j], free |-> free]
        ELSE [dec |-> free[Len(free)], free |-> free]

\* DecoderPool.decode_at, the selection made under the lock: the first free
\* decoder that can stream forward to time_ms, else the last one of the free list
pool_select(free, decs, time_ms) ==
    LET fit == {i \in 1..Len(free) : should_stream_forward(decs[free[i]], time_ms)}
    IN  IF fit # {}
        THEN LET i == CHOOSE i \in fit : \A j \in fit : i <= j
             IN  [dec |-> free[i], free |-> RemoveAt(free, i)]
        ELSE [dec |-> free[Len(free)], free |-> SubSeq(free, 1, Len(free) - 1)]

\* mutant: metadata reads the last free decoder and leaves it in the list
pool_pop_keep(free) == [dec |-> free[Len(free)], free |-> free]

\* DecoderPool.metadata, the selection made under the lock: _free_decoders.pop()
pool_pop(free) == [dec |-> free[Len(free)], free |-> SubSeq(free, 1, Len(free) - 1)]

\* DecoderPool(source, count) of the fair specification: a pool of one decoder,
\* where every caller but one waits and each release frees one decoder
PoolCounts == {1}

IdleThread == [pc |-> "idle", op |-> "none", time_ms |-> 0, dec |-> 0]

\* sequence s with every occurrence of x left out
Without(s, x) == LET keep(y) == y # x IN SelectSeq(s, keep)

\* everything outside the pool specification
NotPool == <<qvars, cvars, ivars, svars, kvars, dvars, xvars, mvars>>

\* the body of "with self._cond: while not self._free_decoders: wait(); select":
\* thread t, holding the lock, waits or takes a decoder
PoolTake(t, op, time_ms) ==
    IF free_decoders = <<>>
    THEN /\ th' = [th EXCEPT ![t] = [pc |-> "wait", op |-> op, time_ms |-> time_ms, dec |-> 0]]
         /\ pool_waiters' = Append(pool_waiters, t)
         /\ UNCHANGED <<free_decoders, released>>
    ELSE LET sel == IF op = "decode_at" THEN pool_select(free_decoders, decoders, time_ms)
                    ELSE pool_pop(free_decoders)
         IN  /\ th' = [th EXCEPT ![t] = [pc |-> "use", op |-> op, time_ms |-> time_ms, dec |-> sel.dec]]
             /\ free_decoders' = sel.free
             /\ released' = Without(released, sel.dec)
             /\ UNCHANGED pool_waiters

\* a thread calls DecoderPool.decode_at(time_ms)
PoolDecodeAt(t, time_ms) ==
    /\ th[t].pc = "idle"
    /\ pool_calls < MaxPoolCalls
    /\ pool_calls' = pool_calls + 1
    /\ PoolTake(t, "decode_at", time_ms)
    /\ UNCHANGED <<decoders, pool_closed>>
    /\ UNCHANGED NotPool

\* a thread calls DecoderPool.metadata()
PoolMetadata(t) ==
    /\ th[t].pc = "idle"
    /\ pool_calls < MaxPoolCalls
    /\ pool_calls' = pool_calls + 1
    /\ PoolTake(t, "metadata", 0)
    /\ UNCHANGED <<decoders, pool_closed>>
    /\ UNCHANGED NotPool

\* a thread woken by notify() has the lock again and tests the free list again
PoolRecheck(t) ==
    /\ th[t].pc = "woken"
    /\ PoolTake(t, th[t].op, th[t].time_ms)
    /\ UNCHANGED <<decoders, pool_calls, pool_closed>>
    /\ UNCHANGED NotPool

\* mutant: the finally block appends the decoder and notifies nobody
PoolFinish_no_notify(t) ==
    /\ th[t].pc = "use"
    /\ decoders' = IF th[t].op = "decode_at"
                   THEN [decoders EXCEPT ![th[t].dec] = decode_at(@, th[t].time_ms).dec]
                   ELSE decoders
    /\ free_decoders' = Append(free_decoders, th[t].dec)
    /\ released' = Append(released, th[t].dec)
    /\ th' = [th EXCEPT ![t] = IdleThread]
    /\ UNCHANGED <<pool_waiters, pool_calls, pool_closed>>
    /\ UNCHANGED NotPool

\* the call on the decoder ends (it returns or raises) and the finally block
\* appends the decoder to the free list and notifies the oldest waiter
PoolFinish(t) ==
    /\ th[t].pc = "use"
    /\ decoders' = IF th[t].op = "decode_at"
                   THEN [decoders EXCEPT ![th[t].dec] = decode_at(@, th[t].time_ms).dec]
                   ELSE decoders
    /\ free_decoders' = Append(free_decoders, th[t].dec)
    /\ released' = Append(released, th[t].dec)
    /\ IF pool_waiters = <<>>
       THEN /\ th' = [th EXCEPT ![t] = IdleThread]
            /\ UNCHANGED pool_waiters
       ELSE /\ th' = [th EXCEPT ![t] = IdleThread,
                                ![Head(pool_waiters)].pc = "woken"]
            /\ pool_waiters' = Tail(pool_waiters)
    /\ UNCHANGED <<pool_calls, pool_closed>>
    /\ UNCHANGED NotPool

PNext ==
    \/ \E t \in Threads, time_ms \in TimeChoices : PoolDecodeAt(t, time_ms)
    \/ \E t \in Threads : PoolMetadata(t)
    \/ \E t \in Threads : PoolRecheck(t)
    \/ \E t \in Threads : PoolFinish(t)

\* DecoderPool.close(), under the lock of the condition: every decoder of the
\* pool is closed, those in use too, and both lists are cleared; no waiter is
\* notified and the calls in progress keep the decoder they hold
PoolClose ==
    /\ ~pool_closed
    /\ pool_closed' = TRUE
    /\ free_decoders' = <<>>
    /\ released' = <<>>
    /\ UNCHANGED <<decoders, pool_waiters, th, pool_calls>>
    /\ UNCHANGED NotPool

\* the pool with the close of its session's removal among its calls
PCloseNext ==
    \/ PNext
    \/ PoolClose

\* ------------------------------------------------- DepthModel.infer_depth_async
Callers == 1..NCallers

\* everything outside the inference specification
NotInfer == <<qvars, cvars, pvars, svars, kvars, dvars, xvars, mvars>>

\* "if self._semaphore is None: self._semaphore = asyncio.Semaphore(self._max_workers)"
semaphore_value == IF semaphore = NoValue THEN max_workers ELSE semaphore

\* a pipeline task calls infer_depth_async: it creates the semaphore if there is
\* none, then enters when a slot is free (the job is handed to the executor,
\* whose threads outnumber the callers) and waits otherwise
InferCall(c) ==
    /\ inf_pc[c] = "idle"
    /\ IF semaphore_value > 0
       THEN /\ semaphore' = semaphore_value - 1
            /\ inf_pc' = [inf_pc EXCEPT ![c] = "run"]
            /\ inf_job' = [inf_job EXCEPT ![c] = "running"]
       ELSE /\ semaphore' = semaphore_value
            /\ inf_pc' = [inf_pc EXCEPT ![c] = "acquire"]
            /\ UNCHANGED inf_job
    /\ UNCHANGED max_workers
    /\ UNCHANGED NotInfer

\* a waiting task gets a slot that was released
InferAcquire(c) ==
    /\ inf_pc[c] = "acquire"
    /\ semaphore > 0
    /\ semaphore' = semaphore - 1
    /\ inf_pc' = [inf_pc EXCEPT ![c] = "run"]
    /\ inf_job' = [inf_job EXCEPT ![c] = "running"]
    /\ UNCHANGED max_workers
    /\ UNCHANGED NotInfer

\* the executor thread returns from infer_depth; a task still awaiting it leaves
\* the "async with" and releases its slot
InferJobDone(c) ==
    /\ inf_job[c] = "running"
    /\ inf_job' = [inf_job EXCEPT ![c] = "finished"]
    /\ IF inf_pc[c] = "run"
       THEN /\ inf_pc' = [inf_pc EXCEPT ![c] = "done"]
            /\ semaphore' = semaphore + 1
       ELSE UNCHANGED <<inf_pc, semaphore>>
    /\ UNCHANGED max_workers
    /\ UNCHANGED NotInfer

\* depth_stream's shutdown cancels the pipeline task (task.cancel()): a task
\* waiting for a slot stops waiting; a task awaiting the executor gets
\* CancelledError, leaves the "async with" and releases its slot, while the
\* executor thread, which cannot be interrupted, goes on running infer_depth
InferCancel(c) ==
    /\ inf_pc[c] \in {"acquire", "run"}
    /\ inf_pc' = [inf_pc EXCEPT ![c] = "cancelled"]
    /\ semaphore' = IF inf_pc[c] = "run" THEN semaphore + 1 ELSE semaphore
    /\ UNCHANGED <<inf_job, max_workers>>
    /\ UNCHANGED NotInfer

INext ==
    \/ \E c \in Callers : InferCall(c)
    \/ \E c \in Callers : InferAcquire(c)
    \/ \E c \in Callers : InferJobDone(c)
    \/ \E c \in Callers : InferCancel(c)

\* ------------------------------------------------------------- depth_stream
\* One connection. Requests are numbered 1, 2, ... in the order the receiver
\* reads them; the pipeline task of request r is task r. The tasks of the
\* connection run on one event loop: a step of the model is what a task does
\* between two suspension points. Acquiring the session's or the manager's
\* asyncio.Lock never suspends, because no holder awaits while holding it.
\* The rtt of a request only feeds session telemetry (see the controller).

\* depth_stream: MAX_CONCURRENT_TASKS (16) and DroppingQueue(maxsize=32), scaled down
MAX_CONCURRENT_TASKS == 2
REQUEST_QUEUE_SIZE == 2
\* settings.inference_worker_count (3), the width of the inference semaphore,
\* scaled down with the cap
INFERENCE_WORKER_COUNT == 1

Requests == 1..MaxRequests
Unfinished == {"start", "decode", "semwait", "infer"}
Final == {"payload", "nopayload", "failed", "cancelled"}

\* what the event loop can run: a coroutine of the connection or a done-callback
Ent(kind, id) == [kind |-> kind, id |-> id]

\* SessionManager.create_session: DecoderPool(target, count=16), the figure of
\* MAX_CONCURRENT_TASKS ("Use DecoderPool with 16 workers to match
\* MAX_CONCURRENT_TASKS")
DECODER_POOL_COUNT == MAX_CONCURRENT_TASKS

\* mutant: the cap is tested with > instead of >=
at_capacity_late(active) == Cardinality(active) > MAX_CONCURRENT_TASKS

\* processor: len(active_tasks) >= MAX_CONCURRENT_TASKS
at_capacity(active) == Cardinality(active) >= MAX_CONCURRENT_TASKS

\* mutant: the newest handle goes to the front of the send queue
send_queue_put_front(q, t) == <<t>> \o q

\* mutant: the handle is put twice
send_queue_put_twice(q, t) == q \o <<t, t>>

\* processor: await send_queue.put(task), an unbounded FIFO asyncio.Queue
send_queue_put(q, t) == Append(q, t)

\* mutant: the processor does not wait at the cap
cap_wait_over_at_once == TRUE

\* asyncio.wait(active_tasks, FIRST_COMPLETED) has returned: a task that was
\* waited for is done and its done-callback active_tasks.discard has run
cap_wait_over == processor.waited \ active_tasks # {}

\* mutant: the semaphore never has a slot to give
semaphore_free_never == FALSE

\* infer_depth_async, "async with self._semaphore": a slot of the semaphore is
\* held by each task whose inference is in the executor
semaphore_free ==
    Cardinality({r \in Requests : task[r] = "infer"}) < INFERENCE_WORKER_COUNT

\* the steps that are already scheduled on the event loop in this state
ReadySet ==
    (IF receiver_pc = "recv" THEN {Ent("receiver", 0)} ELSE {})
    \cup (IF processor.pc = "wait" /\ get_ready(request_queue) THEN {Ent("get_p", 0)} ELSE {})
    \cup (IF processor.pc = "got" \/ (processor.pc = "capwait" /\ cap_wait_over)
          THEN {Ent("processor", 0)} ELSE {})
    \cup (IF sender.pc = "wait" /\ send_queue # <<>> THEN {Ent("get_s", 0)} ELSE {})
    \cup (IF sender.pc = "have" \/ (sender.pc = "await" /\ task[sender.task] \in Final)
          THEN {Ent("sender", 0)} ELSE {})
    \cup (IF reporter_pc = "sleep" THEN {Ent("reporter", 0)} ELSE {})
    \cup {Ent("task", t) : t \in {r \in Requests : task[r] \in {"start", "decode", "infer"}}}
    \cup {Ent("task", t) : t \in {r \in Requests : task[r] = "semwait" /\ semaphore_free}}
    \cup {Ent("discard", t) : t \in {r \in active_tasks : task[r] \in Final}}

\* stop.set() wakes depth_stream, the first waiter of the event, behind the steps
\* that are already scheduled: only those still run before it cancels everything.
\* The stop_task of the processor and of the sender wakes behind depth_stream,
\* which has cancelled its owner by then: "if stop_task in done" is never taken,
\* a processor or sender in its wait ends by cancellation.
CanRun(e) == main_pc = "wait" /\ (~stop \/ e \in before_main)

\* the bookkeeping of a step of e; stop_now: the step calls stop.set()
Ran(e, stop_now) ==
    /\ stop' = (stop \/ stop_now)
    /\ before_main' = IF stop THEN before_main \ {e}
                      ELSE IF stop_now THEN ReadySet \ {e}
                      ELSE before_main

\* everything outside the stream specification
NotStream == <<qvars, cvars, pvars, ivars, kvars, dvars, xvars, mvars>>

\* ---- the client and the session manager (outside the connection)
\* the client closes the socket
ClientClose ==
    /\ main_pc = "wait" /\ ws = "open"
    /\ ws' = "closed"
    /\ UNCHANGED <<stop, session_present, request_queue, n_received, receiver_pc,
                   processor, active_tasks, send_queue, task, sender, reporter_pc,
                   sent, leaked, dequeued, overtaken, drop_count, error_sent,
                   main_pc, before_main>>
    /\ UNCHANGED telemetry
    /\ UNCHANGED NotStream

\* DELETE /api/sessions/{id} or a new upload removes the session from the manager
DeleteSession ==
    /\ main_pc = "wait" /\ session_present
    /\ session_present' = FALSE
    /\ UNCHANGED <<stop, ws, request_queue, n_received, receiver_pc,
                   processor, active_tasks, send_queue, task, sender, reporter_pc,
                   sent, leaked, dequeued, overtaken, drop_count, error_sent,
                   main_pc, before_main>>
    /\ UNCHANGED telemetry
    /\ UNCHANGED NotStream

\* ---- receiver
\* a text message with time_ms arrives: put_nowait into the intake queue
ReceiveRequest ==
    /\ CanRun(Ent("receiver", 0))
    /\ receiver_pc = "recv" /\ ws = "open"
    /\ n_received < MaxRequests
    /\ n_received' = n_received + 1
    /\ request_queue' = put_nowait(request_queue, n_received + 1)
    /\ Ran(Ent("receiver", 0), FALSE)
    /\ UNCHANGED <<ws, session_present, receiver_pc,
                   processor, active_tasks, send_queue, task, sender, reporter_pc,
                   sent, leaked, dequeued, overtaken, drop_count, error_sent, main_pc>>
    /\ UNCHANGED telemetry
    /\ UNCHANGED NotStream

\* a text message that is no JSON arrives: json.loads raises, "except Exception"
\* sets stop and the receiver ends
ReceiveMalformed ==
    /\ CanRun(Ent("receiver", 0))
    /\ receiver_pc = "recv" /\ ws = "open"
    /\ receiver_pc' = "done"
    /\ Ran(Ent("receiver", 0), TRUE)
    /\ UNCHANGED <<ws, session_present, request_queue, n_received,
                   processor, active_tasks, send_queue, task, sender, reporter_pc,
                   sent, leaked, dequeued, overtaken, drop_count, error_sent, main_pc>>
    /\ UNCHANGED telemetry
    /\ UNCHANGED NotStream

\* receive_text raises WebSocketDisconnect: the receiver sets stop and ends
ReceiveDisconnect ==
    /\ CanRun(Ent("receiver", 0))
    /\ receiver_pc = "recv" /\ ws = "closed"
    /\ receiver_pc' = "done"
    /\ Ran(Ent("receiver", 0), TRUE)
    /\ UNCHANGED <<ws, session_present, request_queue, n_received,
                   processor, active_tasks, send_queue, task, sender, reporter_pc,
                   sent, leaked, dequeued, overtaken, drop_count, error_sent, main_pc>>
    /\ UNCHANGED telemetry
    /\ UNCHANGED NotStream

\* ---- processor
\* get_task = create_task(request_queue.get()) returns the oldest request
ProcessorGet ==
    /\ CanRun(Ent("get_p", 0))
    /\ processor.pc = "wait" /\ get_ready(request_queue)
    /\ processor' = [processor EXCEPT !.pc = "got", !.request = get_item(request_queue)]
    /\ request_queue' = get_rest(request_queue)
    /\ dequeued' = Append(dequeued, get_item(request_queue))
    /\ Ran(Ent("get_p", 0), FALSE)
    /\ UNCHANGED <<ws, session_present, n_received, receiver_pc,
                   active_tasks, send_queue, task, sender, reporter_pc,
                   sent, leaked, overtaken, drop_count, error_sent, main_pc>>
    /\ UNCHANGED telemetry
    /\ UNCHANGED NotStream

\* create_task(process_request_pipeline(...)), active_tasks.add, send_queue.put,
\* then back to "while not stop.is_set()"
Spawn(r) ==
    /\ task' = [task EXCEPT ![r] = "start"]
    /\ active_tasks' = active_tasks \cup {r}
    /\ send_queue' = send_queue_put(send_queue, r)
    /\ processor' = [pc |-> IF stop THEN "done" ELSE "wait", request |-> 0, waited |-> {}]

\* mutant: the processor does not look the session up
ProcessorHandle_no_lookup ==
    /\ CanRun(Ent("processor", 0))
    /\ processor.pc = "got"
    /\ drop_count' = drop_count + request_queue.dropped_count
    /\ request_queue' = IF request_queue.dropped_count > 0
                        THEN reset_dropped_count(request_queue)
                        ELSE request_queue
    /\ IF at_capacity(active_tasks)
       THEN /\ processor' = [processor EXCEPT !.pc = "capwait", !.waited = active_tasks]
            /\ UNCHANGED <<task, active_tasks, send_queue>>
       ELSE Spawn(processor.request)
    /\ Ran(Ent("processor", 0), FALSE)
    /\ UNCHANGED <<ws, session_present, n_received, receiver_pc, sender, reporter_pc,
                   sent, leaked, dequeued, overtaken, main_pc, error_sent>>
    /\ UNCHANGED telemetry
    /\ UNCHANGED NotStream

\* the processor resumes with a request: session lookup, report of the drops,
\* then the cap test and the spawn
ProcessorHandle ==
    /\ CanRun(Ent("processor", 0))
    /\ processor.pc = "got"
    /\ IF ~session_present
       THEN \* send_json(error), stop.set(), break; a failed send_json ends in
            \* "except Exception: stop.set()" and the loop test ends the loop
            /\ error_sent' = (error_sent \/ ws = "open")
            /\ processor' = [pc |-> "done", request |-> 0, waited |-> {}]
            /\ Ran(Ent("processor", 0), TRUE)
            /\ UNCHANGED <<request_queue, drop_count, task, active_tasks, send_queue>>
       ELSE /\ drop_count' = drop_count + request_queue.dropped_count
            /\ request_queue' = IF request_queue.dropped_count > 0
                                THEN reset_dropped_count(request_queue)
                                ELSE request_queue
            /\ IF at_capacity(active_tasks)
               THEN /\ processor' = [processor EXCEPT !.pc = "capwait", !.waited = active_tasks]
                    /\ UNCHANGED <<task, active_tasks, send_queue>>
               ELSE Spawn(processor.request)
            /\ Ran(Ent("processor", 0), FALSE)
            /\ UNCHANGED error_sent
    /\ UNCHANGED <<ws, session_present, n_received, receiver_pc, sender, reporter_pc,
                   sent, leaked, dequeued, overtaken, main_pc>>
    /\ UNCHANGED telemetry
    /\ UNCHANGED NotStream

\* asyncio.wait(active_tasks, FIRST_COMPLETED) returns: the processor spawns
ProcessorAfterCap ==
    /\ CanRun(Ent("processor", 0))
    /\ processor.pc = "capwait" /\ cap_wait_over
    /\ Spawn(processor.request)
    /\ Ran(Ent("processor", 0), FALSE)
    /\ UNCHANGED <<ws, session_present, request_queue, n_received, receiver_pc,
                   sender, reporter_pc, sent, leaked, dequeued, overtaken,
                   drop_count, error_sent, main_pc>>
    /\ UNCHANGED telemetry
    /\ UNCHANGED NotStream

\* ---- pipeline task (process_request_pipeline)
\* the keys of the timings dict a pipeline task passes to
\* session.update_telemetry on both of its paths, the cache hit and the pack
\* after inference (the second has decode_s, infer_s and inflight_used besides,
\* which are not followed here)
PayloadTimings == {"queue_wait_s", "pack_s", "total_s"}

\* task t ends with outcome res, having passed its timings to update_telemetry
\* if it returns a payload; its done-callbacks are scheduled
Finish(t, res, timings) ==
    /\ task' = [task EXCEPT ![t] = res]
    /\ telemetry' = IF res = "payload" THEN telemetry \cup timings ELSE telemetry
    /\ overtaken' = (overtaken \/ (res = "payload" /\ \E u \in Requests : u > t /\ task[u] = "payload"))

\* first step: a cache hit packs and returns the payload at once; a miss hands
\* decode_at to a thread
TaskBegin(t, hit) ==
    /\ CanRun(Ent("task", t))
    /\ task[t] = "start"
    /\ IF hit THEN Finish(t, "payload", PayloadTimings)
       ELSE /\ task' = [task EXCEPT ![t] = "decode"]
            /\ UNCHANGED <<overtaken, telemetry>>
    /\ Ran(Ent("task", t), FALSE)
    /\ UNCHANGED <<ws, session_present, request_queue, n_received, receiver_pc,
                   processor, active_tasks, send_queue, sender, reporter_pc,
                   sent, leaked, dequeued, drop_count, error_sent, main_pc>>
    /\ UNCHANGED NotStream

\* the decode thread is back: StopIteration or an error gives (None, timings);
\* a frame takes the task into infer_depth_async, where it enters the semaphore
\* or waits for a slot
TaskDecoded(t, ok) ==
    /\ CanRun(Ent("task", t))
    /\ task[t] = "decode"
    /\ IF ok THEN /\ task' = [task EXCEPT ![t] = IF semaphore_free THEN "infer" ELSE "semwait"]
                  /\ UNCHANGED <<overtaken, telemetry>>
       ELSE Finish(t, "nopayload", {})
    /\ Ran(Ent("task", t), FALSE)
    /\ UNCHANGED <<ws, session_present, request_queue, n_received, receiver_pc,
                   processor, active_tasks, send_queue, sender, reporter_pc,
                   sent, leaked, dequeued, drop_count, error_sent, main_pc>>
    /\ UNCHANGED NotStream

\* a slot was released: the task waiting for the semaphore enters it and hands
\* infer_depth to the executor
TaskAcquire(t) ==
    /\ CanRun(Ent("task", t))
    /\ task[t] = "semwait" /\ semaphore_free
    /\ task' = [task EXCEPT ![t] = "infer"]
    /\ Ran(Ent("task", t), FALSE)
    /\ UNCHANGED <<ws, session_present, request_queue, n_received, receiver_pc,
                   processor, active_tasks, send_queue, sender, reporter_pc,
                   sent, leaked, dequeued, overtaken, drop_count, error_sent, main_pc>>
    /\ UNCHANGED telemetry
    /\ UNCHANGED NotStream

\* inference is back: the frame is stored, packed and returned, or the exception
\* of infer_depth leaves the task, which catches nothing there
TaskInferred(t, ok) ==
    /\ CanRun(Ent("task", t))
    /\ task[t] = "infer"
    /\ Finish(t, IF ok THEN "payload" ELSE "failed", PayloadTimings)
    /\ Ran(Ent("task", t), FALSE)
    /\ UNCHANGED <<ws, session_present, request_queue, n_received, receiver_pc,
                   processor, active_tasks, send_queue, sender, reporter_pc,
                   sent, leaked, dequeued, drop_count, error_sent, main_pc>>
    /\ UNCHANGED NotStream

\* the done-callback active_tasks.discard of a finished task
Discard(t) ==
    /\ CanRun(Ent("discard", t))
    /\ t \in active_tasks /\ task[t] \in Final
    /\ active_tasks' = active_tasks \ {t}
    /\ Ran(Ent("discard", t), FALSE)
    /\ UNCHANGED <<ws, session_present, request_queue, n_received, receiver_pc,
                   processor, send_queue, task, sender, reporter_pc,
                   sent, leaked, dequeued, overtaken, drop_count, error_sent, main_pc>>
    /\ UNCHANGED telemetry
    /\ UNCHANGED NotStream

\* ---- sender
\* get_task = create_task(send_queue.get()) returns the oldest handle
SenderGet ==
    /\ CanRun(Ent("get_s", 0))
    /\ sender.pc = "wait" /\ send_queue # <<>>
    /\ sender' = [pc |-> "have", task |-> Head(send_queue)]
    /\ send_queue' = Tail(send_queue)
    /\ Ran(Ent("get_s", 0), FALSE)
    /\ UNCHANGED <<ws, session_present, request_queue, n_received, receiver_pc,
                   processor, active_tasks, task, reporter_pc,
                   sent, leaked, dequeued, overtaken, drop_count, error_sent, main_pc>>
    /\ UNCHANGED telemetry
    /\ UNCHANGED NotStream

\* mutant: a handle whose task returned None is treated like one whose task raised
Deliver_raise_on_none(t) ==
    LET write == task[t] = "payload"
        failed == task[t] \in {"failed", "nopayload"}
        next_pc == IF (write /\ ws # "open") \/ stop \/ failed THEN "done" ELSE "wait"
    IN  /\ sent' = IF write /\ ws = "open" THEN Append(sent, t) ELSE sent
        /\ leaked' = (leaked \/ (write /\ ws = "open" /\ stop))
        /\ sender' = [pc |-> next_pc, task |-> 0]
        /\ Ran(Ent("sender", 0), failed)

\* the sender has the result of task t: "if payload_bytes" then send_bytes, with
\* no look at the stop event in between, then back to "while not stop.is_set()";
\* the duration of the write goes to the collector and into the task's timings
\* dict, the session is not called;
\* a failed write breaks out of the loop; the exception of a failed task ends in
\* "except Exception: stop.set()"
Deliver(t) ==
    LET write == task[t] = "payload"
        failed == task[t] = "failed"
        next_pc == IF (write /\ ws # "open") \/ stop \/ failed THEN "done" ELSE "wait"
    IN  /\ sent' = IF write /\ ws = "open" THEN Append(sent, t) ELSE sent
        /\ leaked' = (leaked \/ (write /\ ws = "open" /\ stop))
        /\ sender' = [pc |-> next_pc, task |-> 0]
        /\ Ran(Ent("sender", 0), failed)

\* the sender resumes with a handle; a task that is done already is not waited for
SenderResume ==
    /\ CanRun(Ent("sender", 0))
    /\ sender.pc = "have"
    /\ IF task[sender.task] \in Final
       THEN Deliver(sender.task)
       ELSE /\ sender' = [sender EXCEPT !.pc = "await"]
            /\ Ran(Ent("sender", 0), FALSE)
            /\ UNCHANGED <<sent, leaked>>
    /\ UNCHANGED <<ws, session_present, request_queue, n_received, receiver_pc,
                   processor, active_tasks, send_queue, task, reporter_pc,
                   dequeued, overtaken, drop_count, error_sent, main_pc>>
    /\ UNCHANGED telemetry
    /\ UNCHANGED NotStream

\* "result = await task" returns
SenderWake ==
    /\ CanRun(Ent("sender", 0))
    /\ sender.pc = "await" /\ task[sender.task] \in Final
    /\ Deliver(sender.task)
    /\ UNCHANGED <<ws, session_present, request_queue, n_received, receiver_pc,
                   processor, active_tasks, send_queue, task, reporter_pc,
                   dequeued, overtaken, drop_count, error_sent, main_pc>>
    /\ UNCHANGED telemetry
    /\ UNCHANGED NotStream

\* ---- stats_reporter
\* the reporter wakes from sleep(5), logs, and tests "while not stop.is_set()"
ReporterTick ==
    /\ CanRun(Ent("reporter", 0))
    /\ reporter_pc = "sleep"
    /\ reporter_pc' = IF stop THEN "done" ELSE "sleep"
    /\ Ran(Ent("reporter", 0), FALSE)
    /\ UNCHANGED <<ws, session_present, request_queue, n_received, receiver_pc,
                   processor, active_tasks, send_queue, task, sender,
                   sent, leaked, dequeued, overtaken, drop_count, error_sent, main_pc>>
    /\ UNCHANGED telemetry
    /\ UNCHANGED NotStream

\* mutant: cancel() leaves the task where it is
Cancelled_ignored(pc, live) == pc

\* ---- depth_stream itself
\* "await stop.wait()" returns: the finally block cancels the four tasks and
\* every task of active_tasks and gathers them; a task that is done runs its
\* discard callback before the gather sees it, so the set is empty on return
Cancelled(pc, live) == IF pc \in live THEN "cancelled" ELSE pc

MainWake ==
    /\ main_pc = "wait" /\ stop
    /\ main_pc' = "returned"
    /\ before_main' = {}
    /\ receiver_pc' = Cancelled(receiver_pc, {"recv"})
    /\ processor' = [pc |-> Cancelled(processor.pc, {"wait", "got", "capwait"}),
                     request |-> 0, waited |-> {}]
    /\ sender' = [pc |-> Cancelled(sender.pc, {"wait", "have", "await"}), task |-> 0]
    /\ reporter_pc' = Cancelled(reporter_pc, {"sleep"})
    /\ task' = [t \in Requests |->
                    IF t \in active_tasks THEN Cancelled(task[t], Unfinished) ELSE task[t]]
    /\ active_tasks' = {}
    /\ UNCHANGED <<stop, ws, session_present, request_queue, n_received,
                   send_queue, sent, leaked, dequeued, overtaken,
                   drop_count, error_sent>>
    /\ UNCHANGED telemetry
    /\ UNCHANGED NotStream

SNext ==
    \/ ClientClose
    \/ DeleteSession
    \/ ReceiveRequest
    \/ ReceiveMalformed
    \/ ReceiveDisconnect
    \/ ProcessorGet
    \/ ProcessorHandle
    \/ ProcessorAfterCap
    \/ \E t \in Requests, hit \in BOOLEAN : TaskBegin(t, hit)
    \/ \E t \in Requests, ok \in BOOLEAN : TaskDecoded(t, ok)
    \/ \E t \in Requests : TaskAcquire(t)
    \/ \E t \in Requests, ok \in BOOLEAN : TaskInferred(t, ok)
    \/ \E t \in Requests : Discard(t)
    \/ SenderGet
    \/ SenderResume
    \/ SenderWake
    \/ ReporterTick
    \/ MainWake

\* the connection as long as stop is not signalled: every step but the
\* shutdown of depth_stream, taken while the stop event is clear
PipelineNext ==
    /\ ~stop
    /\ \/ ClientClose
       \/ DeleteSession
       \/ ReceiveRequest
       \/ ReceiveMalformed
       \/ ReceiveDisconnect
       \/ ProcessorGet
       \/ ProcessorHandle
       \/ ProcessorAfterCap
       \/ \E t \in Requests, hit \in BOOLEAN : TaskBegin(t, hit)
       \/ \E t \in Requests, ok \in BOOLEAN : TaskDecoded(t, ok)
       \/ \E t \in Requests : TaskAcquire(t)
       \/ \E t \in Requests, ok \in BOOLEAN : TaskInferred(t, ok)
       \/ \E t \in Requests : Discard(t)
       \/ SenderGet
       \/ SenderResume
       \/ SenderWake
       \/ ReporterTick

\* the steps the event loop and the worker threads take by themselves: every
\* step but those of the client and of the session manager; a decode or an
\* inference call that was started ends
PipelineProgress ==
    /\ ~stop
    /\ \/ ReceiveDisconnect
       \/ ProcessorGet
       \/ ProcessorHandle
       \/ ProcessorAfterCap
       \/ \E t \in Requests, hit \in BOOLEAN : TaskBegin(t, hit)
       \/ \E t \in Requests, ok \in BOOLEAN : TaskDecoded(t, ok)
       \/ \E t \in Requests : TaskAcquire(t)
       \/ \E t \in Requests, ok \in BOOLEAN : TaskInferred(t, ok)
       \/ \E t \in Requests : Discard(t)
       \/ SenderGet
       \/ SenderResume
       \/ SenderWake

\* ------------------------------------------------ VideoSession.depth_buffer
\* A DepthFrame is its timestamp_ms and an identity (the number of the store
\* that brought it); NoFrame stands for None.
NoFrame == [timestamp_ms |-> NoValue, id |-> 0]

\* get_cached_depth: tolerance_ms = 33.0 by default
DEFAULT_TOLERANCE_MS == 33

\* the capacities tried (settings.video_cache_size), the timestamps stored and
\* asked for, and the tolerances
Capacities == 0..MaxCacheCap
CacheTimes == {0, 30, 60}
Tolerances == {0, DEFAULT_TOLERANCE_MS}

\* mutant: the buffer has no maxlen
store_depth_frame_unbounded(buffer, maxlen, frame) == Append(buffer, frame)

\* store_depth_frame: depth_buffer.append(frame) on a deque(maxlen): a full
\* deque drops its leftmost entry, a deque of maxlen 0 keeps nothing
store_depth_frame(buffer, maxlen, frame) ==
    IF maxlen = 0 THEN buffer
    ELSE IF Len(buffer) = maxlen THEN Append(Tail(buffer), frame)
    ELSE Append(buffer, frame)

\* mutant: the scan runs from the oldest entry
hit_idx_oldest(buffer, time_ms, tolerance_ms) ==
    LET hits == {i \in 1..Len(buffer) : Abs(buffer[i].timestamp_ms - time_ms) <= tolerance_ms}
    IN  IF hits = {} THEN 0 ELSE CHOOSE i \in hits : \A j \in hits : i <= j

\* get_cached_depth: the scan from the newest entry to the oldest stops at the
\* first entry within tolerance_ms of time_ms; 1-based, 0 for no hit
hit_idx(buffer, time_ms, tolerance_ms) ==
    LET hits == {i \in 1..Len(buffer) : Abs(buffer[i].timestamp_ms - time_ms) <= tolerance_ms}
    IN  IF hits = {} THEN 0 ELSE CHOOSE i \in hits : \A j \in hits : i >= j

\* mutant: drop_on_hit removes the hit only
drop_to_hit_only(buffer, idx) == RemoveAt(buffer, idx)

\* get_cached_depth: "for _ in range(idx + 1): popleft()"
drop_to(buffer, idx) == SubSeq(buffer, idx + 1, Len(buffer))

\* VideoSession.get_cached_depth: the frame returned and the buffer left
get_cached_depth(buffer, time_ms, tolerance_ms, drop_on_hit) ==
    LET idx == hit_idx(buffer, time_ms, tolerance_ms)
    IN  IF idx = 0 THEN [result |-> NoFrame, buffer |-> buffer]
        ELSE [result |-> buffer[idx],
              buffer |-> IF drop_on_hit THEN drop_to(buffer, idx) ELSE buffer]

\* the call made last: nothing yet, a store of frame, or a get with its result
NoCall == [op |-> "none", frame |-> NoFrame, time_ms |-> 0, tolerance_ms |-> 0,
           drop_on_hit |-> FALSE, result |-> NoFrame]

\* everything outside the cache specification
NotCache == <<qvars, cvars, pvars, ivars, svars, dvars, xvars, mvars>>

\* one call of session.store_depth_frame(frame)
CacheStore(ts) ==
    /\ n_stores < MaxStores
    /\ LET frame == [timestamp_ms |-> ts, id |-> n_stores + 1]
       IN  /\ depth_buffer' = store_depth_frame(depth_buffer, video_cache_size, frame)
           /\ last_depth_time_ms' = ts
           /\ cache_call' = [NoCall EXCEPT !.op = "store", !.frame = frame]
    /\ n_stores' = n_stores + 1
    /\ UNCHANGED video_cache_size
    /\ UNCHANGED NotCache

\* one call of session.get_cached_depth(time_ms, tolerance_ms, drop_on_hit)
CacheGet(time_ms, tolerance_ms, drop_on_hit) ==
    /\ LET got == get_cached_depth(depth_buffer, time_ms, tolerance_ms, drop_on_hit)
       IN  /\ depth_buffer' = got.buffer
           /\ cache_call' = [NoCall EXCEPT !.op = "get", !.time_ms = time_ms,
                                           !.tolerance_ms = tolerance_ms,
                                           !.drop_on_hit = drop_on_hit,
                                           !.result = got.result]
    /\ UNCHANGED <<video_cache_size, last_depth_time_ms, n_stores>>
    /\ UNCHANGED NotCache

KNext ==
    \/ \E ts \in CacheTimes : CacheStore(ts)
    \/ \E t \in CacheTimes, tol \in Tolerances, drop \in BOOLEAN : CacheGet(t, tol, drop)

\* ----------------------------------------------------- one FrameDecoder alone
\* the timestamps asked for: every frame time, the times half way between two
\* frames, and times past the last frame
DecodeTimes == {i * (FrameMs \div 2) : i \in 0..(2 * NFrames + 2)}

\* the call made last on the decoder: the time asked for and the frame returned
\* (0 for StopIteration), and the same of the call before it; NoValue for no call
NoDecode == [time_ms |-> NoValue, frame |-> 0, prev_time_ms |-> NoValue, prev_frame |-> 0]

\* everything outside the single-decoder specification
NotDecoder == <<qvars, cvars, pvars, ivars, svars, kvars, xvars, mvars>>

\* one call of FrameDecoder.decode_at(time_ms)
DecodeAt(time_ms) ==
    /\ fd' = decode_at(fd, time_ms).dec
    /\ fd_call' = [time_ms |-> time_ms, frame |-> decode_at(fd, time_ms).frame,
                    prev_time_ms |-> fd_call.time_ms, prev_frame |-> fd_call.frame]
    /\ UNCHANGED NotDecoder

DNext == \E time_ms \in DecodeTimes : DecodeAt(time_ms)

\* ------------------------------------------------------------ depth payload
\* src/backend/utils/packets.py. Depths are counted in units of 0.001 and the
\* arithmetic is exact: scale, a fraction of a unit, is kept as the numerator
\* scale_num of scale_num / LEVELS.
LEVELS == 65535
\* z_max = z_min + 1e-3 of a degenerate range, in units
RANGE_FLOOR == 1
U16 == 65536

\* the values tried for z_min and z_max, and for a pixel of the depth array
ZChoices == {k * ZStep : k \in (0 - 1)..MaxZ}
PixelChoices == {k * PixStep : k \in (0 - MaxPix)..MaxPix}

\* mutant: the depth is not clamped to the range
clip_none(x, lo, hi) == x

\* np.clip(depth, z_min, z_max)
clip(x, lo, hi) == IF x < lo THEN lo ELSE IF x > hi THEN hi ELSE x

\* np.rint of num / den for num >= 0, den > 0: to the nearest integer, a tie to
\* the even one
rint(num, den) ==
    LET q == num \div den
        r == num % den
    IN  IF 2 * r < den THEN q
        ELSE IF 2 * r > den THEN q + 1
        ELSE IF q % 2 = 0 THEN q ELSE q + 1

\* astype("<u2") of an integral value
astype_u2(x) == x % U16

\* quantize_depth for one pixel: the encoded value, scale and bias
quantize_depth(pixel, z_min, z_max) ==
    LET hi == IF z_max <= z_min THEN z_min + RANGE_FLOOR ELSE z_max
        clipped == clip(pixel, z_min, hi)
    IN  [encoded |-> astype_u2(rint((clipped - z_min) * LEVELS, hi - z_min)),
         scale_num |-> hi - z_min,
         bias |-> z_min]

NoPack == [op |-> "none", pixel |-> 0, z_min |-> 0, z_max |-> 0,
           encoded |-> 0, scale_num |-> 0, bias |-> 0]

NotPack == <<qvars, cvars, pvars, ivars, svars, kvars, dvars, mvars>>

\* one call of pack_depth_payload, followed for one pixel of the array
PackDepthPayload(pixel, z_min, z_max) ==
    /\ pk' = [op |-> "pack", pixel |-> pixel, z_min |-> z_min, z_max |-> z_max] @@
             quantize_depth(pixel, z_min, z_max)
    /\ UNCHANGED NotPack

XNext == \E pixel \in PixelChoices, z_min \in ZChoices, z_max \in ZChoices :
            PackDepthPayload(pixel, z_min, z_max)

\* ----------------------------------------------------------- SessionManager
\* A session is known by its id; the id of the session made by upload u is u
\* (uuid4 ids do not repeat). The pool of a session is open from its
\* construction until DecoderPool.close() is called on it.
Uploads == 1..NUploads

\* SessionManager.get: the session of the id, or None
manager_get(map, id) == IF id \in map THEN id ELSE NoValue

\* mutant: the pools of the sessions taken out are left open
close_pools_none(closed, ids) == closed

\* "session.decoder.close()" for each of the sessions taken out of the map;
\* close() swallows the errors of its decoders and returns
close_pools(closed, ids) == closed \cup ids

NotManager == <<qvars, cvars, pvars, ivars, svars, kvars, dvars, xvars>>

\* clear_cache with the default data root: the map is emptied under the lock
\* and every session that was in it has its pool closed and its files removed,
\* with no await in between. With another data root the guard reads
\* settings.clear_cache_override, which Settings does not define: the call
\* raises and the map is left alone.
clear_cache_raises == ~default_root

ClearCache ==
    /\ sessions' = {}
    /\ popped' = popped \cup sessions
    /\ closed_pools' = close_pools(closed_pools, sessions)

\* create_session up to its first await on upload.read: clear_cache runs first
CreateBegin(u) ==
    /\ creating[u] = "idle"
    /\ IF clear_cache_raises
       THEN /\ creating' = [creating EXCEPT ![u] = "raised"]
            /\ UNCHANGED <<sessions, popped, closed_pools>>
       ELSE /\ creating' = [creating EXCEPT ![u] = "upload"]
            /\ ClearCache
    /\ UNCHANGED default_root
    /\ UNCHANGED NotManager

\* the upload is written: the pool is built and the session enters the map; a
\* file that cannot be opened raises in DecoderPool(...) and no session is made
CreateEnd(u, ok) ==
    /\ creating[u] = "upload"
    /\ creating' = [creating EXCEPT ![u] = IF ok THEN "done" ELSE "raised"]
    /\ sessions' = IF ok THEN sessions \cup {u} ELSE sessions
    /\ UNCHANGED <<default_root, popped, closed_pools>>
    /\ UNCHANGED NotManager

\* delete_session(id): pop under the lock, then close and file removal of the
\* session popped, with no await in between; an id not in the map does nothing.
\* The call is made for an id that was given out or for any other.
ManagerDelete(id) ==
    /\ sessions' = sessions \ {id}
    /\ popped' = popped \cup (sessions \cap {id})
    /\ closed_pools' = close_pools(closed_pools, sessions \cap {id})
    /\ UNCHANGED <<default_root, creating>>
    /\ UNCHANGED NotManager

MNext ==
    \/ \E u \in Uploads : CreateBegin(u)
    \/ \E u \in Uploads, ok \in BOOLEAN : CreateEnd(u, ok)
    \/ \E id \in Uploads : ManagerDelete(id)

\* ------------------------------------------------------------ specifications
\* Each specification starts one component in the states it can be constructed
\* in and every other component in its state after construction.
QueueInit ==
    /\ dq \in {DroppingQueue(K) : K \in 0..MaxCap}
    /\ run_ok = TRUE /\ run_log = <<>>
    /\ depth_process_res = 640 /\ session = NewSession
    /\ since_change = 0 - 1 /\ n_changes = 0
    /\ decoders = [d \in Decoders |-> NewDecoder]
    /\ free_decoders = [i \in 1..NDecoders |-> i]
    /\ pool_waiters = <<>> /\ th = [t \in Threads |-> IdleThread] /\ pool_calls = 0
    /\ released = <<>> /\ pool_closed = FALSE
    /\ max_workers = 1 /\ semaphore = NoValue
    /\ inf_pc = [c \in Callers |-> "idle"] /\ inf_job = [c \in Callers |-> "none"]
    /\ stop = FALSE /\ ws = "open" /\ session_present = TRUE
    /\ request_queue = DroppingQueue(REQUEST_QUEUE_SIZE) /\ n_received = 0
    /\ receiver_pc = "recv"
    /\ processor = [pc |-> "wait", request |-> 0, waited |-> {}]
    /\ active_tasks = {} /\ send_queue = <<>>
    /\ task = [t \in Requests |-> "none"]
    /\ sender = [pc |-> "wait", task |-> 0]
    /\ reporter_pc = "sleep" /\ main_pc = "wait" /\ before_main = {}
    /\ drop_count = 0 /\ error_sent = FALSE
    /\ sent = <<>> /\ leaked = FALSE /\ dequeued = <<>> /\ overtaken = FALSE
    /\ telemetry = {}
    /\ video_cache_size = 0 /\ depth_buffer = <<>> /\ last_depth_time_ms = NoValue
    /\ n_stores = 0 /\ cache_call = NoCall
    /\ fd = NewDecoder /\ fd_call = NoDecode
    /\ pk = NoPack
    /\ default_root = TRUE /\ sessions = {} /\ closed_pools = {} /\ popped = {}
    /\ creating = [u \in Uploads |-> "idle"]

CtlInit ==
    /\ dq = DroppingQueue(0)
    /\ run_ok = TRUE /\ run_log = <<>>
    /\ depth_process_res \in ProcessResChoices /\ session = NewSession
    /\ since_change = 0 - 1 /\ n_changes = 0
    /\ decoders = [d \in Decoders |-> NewDecoder]
    /\ free_decoders = [i \in 1..NDecoders |-> i]
    /\ pool_waiters = <<>> /\ th = [t \in Threads |-> IdleThread] /\ pool_calls = 0
    /\ released = <<>> /\ pool_closed = FALSE
    /\ max_workers = 1 /\ semaphore = NoValue
    /\ inf_pc = [c \in Callers |-> "idle"] /\ inf_job = [c \in Callers |-> "none"]
    /\ stop = FALSE /\ ws = "open" /\ session_present = TRUE
    /\ request_queue = DroppingQueue(REQUEST_QUEUE_SIZE) /\ n_received = 0
    /\ receiver_pc = "recv"
    /\ processor = [pc |-> "wait", request |-> 0, waited |-> {}]
    /\ active_tasks = {} /\ send_queue = <<>>
    /\ task = [t \in Requests |-> "none"]
    /\ sender = [pc |-> "wait", task |-> 0]
    /\ reporter_pc = "sleep" /\ main_pc = "wait" /\ before_main = {}
    /\ drop_count = 0 /\ error_sent = FALSE
    /\ sent = <<>> /\ leaked = FALSE /\ dequeued = <<>> /\ overtaken = FALSE
    /\ telemetry = {}
    /\ video_cache_size = 0 /\ depth_buffer = <<>> /\ last_depth_time_ms = NoValue
    /\ n_stores = 0 /\ cache_call = NoCall
    /\ fd = NewDecoder /\ fd_call = NoDecode
    /\ pk = NoPack
    /\ default_root = TRUE /\ sessions = {} /\ closed_pools = {} /\ popped = {}
    /\ creating = [u \in Uploads |-> "idle"]

PoolInit ==
    /\ dq = DroppingQueue(0)
    /\ run_ok = TRUE /\ run_log = <<>>
    /\ depth_process_res = 640 /\ session = NewSession
    /\ since_change = 0 - 1 /\ n_changes = 0
    /\ decoders = [d \in Decoders |-> NewDecoder]
    /\ free_decoders = [i \in 1..NDecoders |-> i]
    /\ pool_waiters = <<>> /\ th = [t \in Threads |-> IdleThread] /\ pool_calls = 0
    /\ released = <<>> /\ pool_closed = FALSE
    /\ max_workers = 1 /\ semaphore = NoValue
    /\ inf_pc = [c \in Callers |-> "idle"] /\ inf_job = [c \in Callers |-> "none"]
    /\ stop = FALSE /\ ws = "open" /\ session_present = TRUE
    /\ request_queue = DroppingQueue(REQUEST_QUEUE_SIZE) /\ n_received = 0
    /\ receiver_pc = "recv"
    /\ processor = [pc |-> "wait", request |-> 0, waited |-> {}]
    /\ active_tasks = {} /\ send_queue = <<>>
    /\ task = [t \in Requests |-> "none"]
    /\ sender = [pc |-> "wait", task |-> 0]
    /\ reporter_pc = "sleep" /\ main_pc = "wait" /\ before_main = {}
    /\ drop_count = 0 /\ error_sent = FALSE
    /\ sent = <<>> /\ leaked = FALSE /\ dequeued = <<>> /\ overtaken = FALSE
    /\ telemetry = {}
    /\ video_cache_size = 0 /\ depth_buffer = <<>> /\ last_depth_time_ms = NoValue
    /\ n_stores = 0 /\ cache_call = NoCall
    /\ fd = NewDecoder /\ fd_call = NoDecode
    /\ pk = NoPack
    /\ default_root = TRUE /\ sessions = {} /\ closed_pools = {} /\ popped = {}
    /\ creating = [u \in Uploads |-> "idle"]

\* as PoolInit, for a pool built with a count from PoolCounts
PoolCountInit ==
    /\ dq = DroppingQueue(0)
    /\ run_ok = TRUE /\ run_log = <<>>
    /\ depth_process_res = 640 /\ session = NewSession
    /\ since_change = 0 - 1 /\ n_changes = 0
    /\ decoders = [d \in Decoders |-> NewDecoder]
    /\ free_decoders \in {[i \in 1..count |-> i] : count \in PoolCounts}
    /\ pool_waiters = <<>> /\ th = [t \in Threads |-> IdleThread] /\ pool_calls = 0
    /\ released = <<>> /\ pool_closed = FALSE
    /\ max_workers = 1 /\ semaphore = NoValue
    /\ inf_pc = [c \in Callers |-> "idle"] /\ inf_job = [c \in Callers |-> "none"]
    /\ stop = FALSE /\ ws = "open" /\ session_present = TRUE
    /\ request_queue = DroppingQueue(REQUEST_QUEUE_SIZE) /\ n_received = 0
    /\ receiver_pc = "recv"
    /\ processor = [pc |-> "wait", request |-> 0, waited |-> {}]
    /\ active_tasks = {} /\ send_queue = <<>>
    /\ task = [t \in Requests |-> "none"]
    /\ sender = [pc |-> "wait", task |-> 0]
    /\ reporter_pc = "sleep" /\ main_pc = "wait" /\ before_main = {}
    /\ drop_count = 0 /\ error_sent = FALSE
    /\ sent = <<>> /\ leaked = FALSE /\ dequeued = <<>> /\ overtaken = FALSE
    /\ telemetry = {}
    /\ video_cache_size = 0 /\ depth_buffer = <<>> /\ last_depth_time_ms = NoValue
    /\ n_stores = 0 /\ cache_call = NoCall
    /\ fd = NewDecoder /\ fd_call = NoDecode
    /\ pk = NoPack
    /\ default_root = TRUE /\ sessions = {} /\ closed_pools = {} /\ popped = {}
    /\ creating = [u \in Uploads |-> "idle"]

InferInit ==
    /\ dq = DroppingQueue(0)
    /\ run_ok = TRUE /\ run_log = <<>>
    /\ depth_process_res = 640 /\ session = NewSession
    /\ since_change = 0 - 1 /\ n_changes = 0
    /\ decoders = [d \in Decoders |-> NewDecoder]
    /\ free_decoders = [i \in 1..NDecoders |-> i]
    /\ pool_waiters = <<>> /\ th = [t \in Threads |-> IdleThread] /\ pool_calls = 0
    /\ released = <<>> /\ pool_closed = FALSE
    /\ max_workers \in 1..MaxWorkers /\ semaphore = NoValue
    /\ inf_pc = [c \in Callers |-> "idle"] /\ inf_job = [c \in Callers |-> "none"]
    /\ stop = FALSE /\ ws = "open" /\ session_present = TRUE
    /\ request_queue = DroppingQueue(REQUEST_QUEUE_SIZE) /\ n_received = 0
    /\ receiver_pc = "recv"
    /\ processor = [pc |-> "wait", request |-> 0, waited |-> {}]
    /\ active_tasks = {} /\ send_queue = <<>>
    /\ task = [t \in Requests |-> "none"]
    /\ sender = [pc |-> "wait", task |-> 0]
    /\ reporter_pc = "sleep" /\ main_pc = "wait" /\ before_main = {}
    /\ drop_count = 0 /\ error_sent = FALSE
    /\ sent = <<>> /\ leaked = FALSE /\ dequeued = <<>> /\ overtaken = FALSE
    /\ telemetry = {}
    /\ video_cache_size = 0 /\ depth_buffer = <<>> /\ last_depth_time_ms = NoValue
    /\ n_stores = 0 /\ cache_call = NoCall
    /\ fd = NewDecoder /\ fd_call = NoDecode
    /\ pk = NoPack
    /\ default_root = TRUE /\ sessions = {} /\ closed_pools = {} /\ popped = {}
    /\ creating = [u \in Uploads |-> "idle"]

StreamInit ==
    /\ dq = DroppingQueue(0)
    /\ run_ok = TRUE /\ run_log = <<>>
    /\ depth_process_res = 640 /\ session = NewSession
    /\ since_change = 0 - 1 /\ n_changes = 0
    /\ decoders = [d \in Decoders |-> NewDecoder]
    /\ free_decoders = [i \in 1..NDecoders |-> i]
    /\ pool_waiters = <<>> /\ th = [t \in Threads |-> IdleThread] /\ pool_calls = 0
    /\ released = <<>> /\ pool_closed = FALSE
    /\ max_workers = 1 /\ semaphore = NoValue
    /\ inf_pc = [c \in Callers |-> "idle"] /\ inf_job = [c \in Callers |-> "none"]
    /\ stop = FALSE /\ ws = "open" /\ session_present = TRUE
    /\ request_queue = DroppingQueue(REQUEST_QUEUE_SIZE) /\ n_received = 0
    /\ receiver_pc = "recv"
    /\ processor = [pc |-> "wait", request |-> 0, waited |-> {}]
    /\ active_tasks = {} /\ send_queue = <<>>
    /\ task = [t \in Requests |-> "none"]
    /\ sender = [pc |-> "wait", task |-> 0]
    /\ reporter_pc = "sleep" /\ main_pc = "wait" /\ before_main = {}
    /\ drop_count = 0 /\ error_sent = FALSE
    /\ sent = <<>> /\ leaked = FALSE /\ dequeued = <<>> /\ overtaken = FALSE
    /\ telemetry = {}
    /\ video_cache_size = 0 /\ depth_buffer = <<>> /\ last_depth_time_ms = NoValue
    /\ n_stores = 0 /\ cache_call = NoCall
    /\ fd = NewDecoder /\ fd_call = NoDecode
    /\ pk = NoPack
    /\ default_root = TRUE /\ sessions = {} /\ closed_pools = {} /\ popped = {}
    /\ creating = [u \in Uploads |-> "idle"]

CacheInit ==
    /\ dq = DroppingQueue(0)
    /\ run_ok = TRUE /\ run_log = <<>>
    /\ depth_process_res = 640 /\ session = NewSession
    /\ since_change = 0 - 1 /\ n_changes = 0
    /\ decoders = [d \in Decoders |-> NewDecoder]
    /\ free_decoders = [i \in 1..NDecoders |-> i]
    /\ pool_waiters = <<>> /\ th = [t \in Threads |-> IdleThread] /\ pool_calls = 0
    /\ released = <<>> /\ pool_closed = FALSE
    /\ max_workers = 1 /\ semaphore = NoValue
    /\ inf_pc = [c \in Callers |-> "idle"] /\ inf_job = [c \in Callers |-> "none"]
    /\ stop = FALSE /\ ws = "open" /\ session_present = TRUE
    /\ request_queue = DroppingQueue(REQUEST_QUEUE_SIZE) /\ n_received = 0
    /\ receiver_pc = "recv"
    /\ processor = [pc |-> "wait", request |-> 0, waited |-> {}]
    /\ active_tasks = {} /\ send_queue = <<>>
    /\ task = [t \in Requests |-> "none"]
    /\ sender = [pc |-> "wait", task |-> 0]
    /\ reporter_pc = "sleep" /\ main_pc = "wait" /\ before_main = {}
    /\ drop_count = 0 /\ error_sent = FALSE
    /\ sent = <<>> /\ leaked = FALSE /\ dequeued = <<>> /\ overtaken = FALSE
    /\ telemetry = {}
    /\ video_cache_size \in Capacities /\ depth_buffer = <<>> /\ last_depth_time_ms = NoValue
    /\ n_stores = 0 /\ cache_call = NoCall
    /\ fd = NewDecoder /\ fd_call = NoDecode
    /\ pk = NoPack
    /\ default_root = TRUE /\ sessions = {} /\ closed_pools = {} /\ popped = {}
    /\ creating = [u \in Uploads |-> "idle"]

DecoderInit ==
    /\ dq = DroppingQueue(0)
    /\ run_ok = TRUE /\ run_log = <<>>
    /\ depth_process_res = 640 /\ session = NewSession
    /\ since_change = 0 - 1 /\ n_changes = 0
    /\ decoders = [d \in Decoders |-> NewDecoder]
    /\ free_decoders = [i \in 1..NDecoders |-> i]
    /\ pool_waiters = <<>> /\ th = [t \in Threads |-> IdleThread] /\ pool_calls = 0
    /\ released = <<>> /\ pool_closed = FALSE
    /\ max_workers = 1 /\ semaphore = NoValue
    /\ inf_pc = [c \in Callers |-> "idle"] /\ inf_job = [c \in Callers |-> "none"]
    /\ stop = FALSE /\ ws = "open" /\ session_present = TRUE
    /\ request_queue = DroppingQueue(REQUEST_QUEUE_SIZE) /\ n_received = 0
    /\ receiver_pc = "recv"
    /\ processor = [pc |-> "wait", request |-> 0, waited |-> {}]
    /\ active_tasks = {} /\ send_queue = <<>>
    /\ task = [t \in Requests |-> "none"]
    /\ sender = [pc |-> "wait", task |-> 0]
    /\ reporter_pc = "sleep" /\ main_pc = "wait" /\ before_main = {}
    /\ drop_count = 0 /\ error_sent = FALSE
    /\ sent = <<>> /\ leaked = FALSE /\ dequeued = <<>> /\ overtaken = FALSE
    /\ telemetry = {}
    /\ video_cache_size = 0 /\ depth_buffer = <<>> /\ last_depth_time_ms = NoValue
    /\ n_stores = 0 /\ cache_call = NoCall
    /\ fd = NewDecoder /\ fd_call = NoDecode
    /\ pk = NoPack
    /\ default_root = TRUE /\ sessions = {} /\ closed_pools = {} /\ popped = {}
    /\ creating = [u \in Uploads |-> "idle"]

PackInit ==
    /\ dq = DroppingQueue(0)
    /\ run_ok = TRUE /\ run_log = <<>>
    /\ depth_process_res = 640 /\ session = NewSession
    /\ since_change = 0 - 1 /\ n_changes = 0
    /\ decoders = [d \in Decoders |-> NewDecoder]
    /\ free_decoders = [i \in 1..NDecoders |-> i]
    /\ pool_waiters = <<>> /\ th = [t \in Threads |-> IdleThread] /\ pool_calls = 0
    /\ released = <<>> /\ pool_closed = FALSE
    /\ max_workers = 1 /\ semaphore = NoValue
    /\ inf_pc = [c \in Callers |-> "idle"] /\ inf_job = [c \in Callers |-> "none"]
    /\ stop = FALSE /\ ws = "open" /\ session_present = TRUE
    /\ request_queue = DroppingQueue(REQUEST_QUEUE_SIZE) /\ n_received = 0
    /\ receiver_pc = "recv"
    /\ processor = [pc |-> "wait", request |-> 0, waited |-> {}]
    /\ active_tasks = {} /\ send_queue = <<>>
    /\ task = [t \in Requests |-> "none"]
    /\ sender = [pc |-> "wait", task |-> 0]
    /\ reporter_pc = "sleep" /\ main_pc = "wait" /\ before_main = {}
    /\ drop_count = 0 /\ error_sent = FALSE
    /\ sent = <<>> /\ leaked = FALSE /\ dequeued = <<>> /\ overtaken = FALSE
    /\ telemetry = {}
    /\ video_cache_size = 0 /\ depth_buffer = <<>> /\ last_depth_time_ms = NoValue
    /\ n_stores = 0 /\ cache_call = NoCall
    /\ fd = NewDecoder /\ fd_call = NoDecode
    /\ pk = NoPack
    /\ default_root = TRUE /\ sessions = {} /\ closed_pools = {} /\ popped = {}
    /\ creating = [u \in Uploads |-> "idle"]

ManagerInit ==
    /\ dq = DroppingQueue(0)
    /\ run_ok = TRUE /\ run_log = <<>>
    /\ depth_process_res = 640 /\ session = NewSession
    /\ since_change = 0 - 1 /\ n_changes = 0
    /\ decoders = [d \in Decoders |-> NewDecoder]
    /\ free_decoders = [i \in 1..NDecoders |-> i]
    /\ pool_waiters = <<>> /\ th = [t \in Threads |-> IdleThread] /\ pool_calls = 0
    /\ released = <<>> /\ pool_closed = FALSE
    /\ max_workers = 1 /\ semaphore = NoValue
    /\ inf_pc = [c \in Callers |-> "idle"] /\ inf_job = [c \in Callers |-> "none"]
    /\ stop = FALSE /\ ws = "open" /\ session_present = TRUE
    /\ request_queue = DroppingQueue(REQUEST_QUEUE_SIZE) /\ n_received = 0
    /\ receiver_pc = "recv"
    /\ processor = [pc |-> "wait", request |-> 0, waited |-> {}]
    /\ active_tasks = {} /\ send_queue = <<>>
    /\ task = [t \in Requests |-> "none"]
    /\ sender = [pc |-> "wait", task |-> 0]
    /\ reporter_pc = "sleep" /\ main_pc = "wait" /\ before_main = {}
    /\ drop_count = 0 /\ error_sent = FALSE
    /\ sent = <<>> /\ leaked = FALSE /\ dequeued = <<>> /\ overtaken = FALSE
    /\ telemetry = {}
    /\ video_cache_size = 0 /\ depth_buffer = <<>> /\ last_depth_time_ms = NoValue
    /\ n_stores = 0 /\ cache_call = NoCall
    /\ fd = NewDecoder /\ fd_call = NoDecode
    /\ pk = NoPack
    /\ default_root \in BOOLEAN /\ sessions = {} /\ closed_pools = {} /\ popped = {}
    /\ creating = [u \in Uploads |-> "idle"]

SpecQueue == QueueInit /\ [][QNext]_vars
SpecCtl == CtlInit /\ [][CNext]_vars
\* the reports keep coming while the stream runs
SpecSlowInfer == CtlInit /\ [][SlowNext]_vars /\ WF_vars(SlowNext)
SpecPool == PoolInit /\ [][PNext]_vars
SpecPoolClose == PoolInit /\ [][PCloseNext]_vars
\* the pool under fair scheduling: a call that holds a decoder ends, and a thread
\* woken by notify() gets the lock and tests the free list again
PoolFairness ==
    \A t \in Threads : WF_vars(PoolFinish(t)) /\ WF_vars(PoolRecheck(t))
SpecPoolFair == PoolCountInit /\ [][PNext]_vars /\ PoolFairness
SpecInfer == InferInit /\ [][INext]_vars
SpecStream == StreamInit /\ [][SNext]_vars
\* the connection under fair scheduling: the event loop runs depth_stream once
\* stop.set() has scheduled its wake-up
SpecStreamFair == StreamInit /\ [][SNext]_vars /\ WF_vars(MainWake)
\* the connection up to the stop signal, with every started step carried out
SpecPipelineFair == StreamInit /\ [][PipelineNext]_vars /\ WF_vars(PipelineProgress)
SpecCache == CacheInit /\ [][KNext]_vars
SpecDecoder == DecoderInit /\ [][DNext]_vars
SpecPack == PackInit /\ [][XNext]_vars
SpecManager == ManagerInit /\ [][MNext]_vars

\* ====================================================================== claims
\* ---------------------------------------------------------------- DroppingQueue

\* C2: for every capacity K > 0 and every n > K, after n put_nowait calls on an
\* empty queue (dropped_count 0) with no get in between, dropped_count = n - K and
\* the queue holds exactly the last K items put, in insertion order.
C2_DropOldestKeepsLastK ==
    (run_ok /\ dq.maxsize > 0 /\ Len(run_log) > dq.maxsize)
        => /\ dq.dropped_count = Len(run_log) - dq.maxsize
           /\ dq.queue = LastK(run_log, dq.maxsize)

\* C2 witness: five puts into a queue of capacity 2, no get in between
C2_Witness == run_ok /\ dq.maxsize = 2 /\ Len(run_log) = 5

\* C3: under any interleaving of put_nowait and get a queue with maxsize K > 0
\* holds at most K items; put_nowait is a total step (it never waits): on a full
\* queue it evicts exactly the oldest item and adds one to dropped_count, otherwise
\* it appends and leaves dropped_count alone.
C3_BoundedNonBlockingPut ==
    /\ dq.maxsize > 0 => Len(dq.queue) <= dq.maxsize
    /\ \A item \in Items :
         LET after == put_nowait(dq, item)
             full == dq.maxsize > 0 /\ Len(dq.queue) = dq.maxsize
         IN  /\ dq.maxsize > 0 => Len(after.queue) <= dq.maxsize
             /\ full => /\ after.queue = Append(Tail(dq.queue), item)
                        /\ after.dropped_count = dq.dropped_count + 1
             /\ ~full => /\ after.queue = Append(dq.queue, item)
                         /\ after.dropped_count = dq.dropped_count

\* C3 witness: a full queue that has evicted before and has been read from
C3_Witness ==
    /\ dq.maxsize = 2 /\ Len(dq.queue) = 2
    /\ dq.dropped_count > 1 /\ ~run_ok

\* ------------------------------------------------------------------- controller
LadderSet == {all_steps[i] : i \in 1..Len(all_steps)}
\* the filtered ladder {s in ladder : s <= configured maximum}
Allowed(max_res) == {s \in LadderSet : s <= max_res}
\* position of ladder step v in the filtered ladder, 1 = highest resolution
Pos(v, max_res) == Cardinality({s \in Allowed(max_res) : s > v}) + 1
\* the ladder step nearest to v, the higher resolution of two equally near ones
Nearest(v, max_res) ==
    CHOOSE s \in Allowed(max_res) :
        \A r \in Allowed(max_res) :
            \/ Abs(s - v) < Abs(r - v)
            \/ (Abs(s - v) = Abs(r - v) /\ s >= r)

\* C8 as stated: the value written to telemetry is a member of the ladder that is
\* <= depth_process_res, for every configured depth_process_res.
C8_Original ==
    session.quality_process_res # NoValue
        => session.quality_process_res \in Allowed(depth_process_res)

\* C8 (amended): after any sequence of update_telemetry calls the value written is
\* a member of the ladder <= depth_process_res when such a member exists
\* (depth_process_res >= 320); when depth_process_res is below the whole ladder
\* the value written is depth_process_res itself.
C8_ResolutionInFilteredLadder ==
    session.quality_process_res # NoValue
        => IF Allowed(depth_process_res) # {}
           THEN session.quality_process_res \in Allowed(depth_process_res)
           ELSE session.quality_process_res = depth_process_res

\* C8 witness: two changes made under a maximum that is not itself a ladder step
C8_Witness ==
    /\ depth_process_res = 600 /\ n_changes = 2
    /\ session.quality_process_res \in Allowed(600)

\* the resolution in force before and after a step
ResBefore == process_res(session, depth_process_res)
ResAfter == process_res(session', depth_process_res)

\* C9 as stated: every change moves exactly one position in the filtered ladder
\* relative to the value held before the change.
C9_Original ==
    [][ResAfter # ResBefore
        => /\ ResBefore \in Allowed(depth_process_res)
           /\ ResAfter \in Allowed(depth_process_res)
           /\ Abs(Pos(ResAfter, depth_process_res) - Pos(ResBefore, depth_process_res)) = 1]_vars

\* C9 (amended): every change lands on a step of the filtered ladder at most one
\* position away from the ladder step nearest to the value held before; when the
\* value held before is itself a step of the filtered ladder the change moves
\* exactly one position.
C9_UnitSteps ==
    [][ResAfter # ResBefore
        => /\ ResAfter \in Allowed(depth_process_res)
           /\ Abs(Pos(ResAfter, depth_process_res)
                  - Pos(Nearest(ResBefore, depth_process_res), depth_process_res)) <= 1
           /\ ResBefore \in Allowed(depth_process_res)
                => Abs(Pos(ResAfter, depth_process_res) - Pos(ResBefore, depth_process_res)) = 1]_vars

\* C9 witness: the second change has just been made, one step below the first
C9_Witness ==
    /\ n_changes = 2 /\ since_change = 0
    /\ depth_process_res = 640 /\ session.quality_process_res = 480

\* C10: between two consecutive changes at least QUALITY_COOLDOWN update_telemetry
\* calls occur; a change sets the cooldown to QUALITY_COOLDOWN, and an update made
\* while the cooldown is > 0 decrements it by one and leaves the resolution unchanged.
C10_CooldownBetweenChanges ==
    [][/\ ResAfter # ResBefore
            => /\ since_change < 0 \/ since_change >= QUALITY_COOLDOWN
               /\ session'.quality_cooldown = QUALITY_COOLDOWN
       /\ (session.quality_cooldown > 0 /\ session' # session)
            => /\ session'.quality_cooldown = session.quality_cooldown - 1
               /\ ResAfter = ResBefore]_vars

\* C10 witness: a second change, made after the cooldown of the first has run out
C10_Witness ==
    /\ n_changes = 2 /\ since_change = 0
    /\ session.quality_cooldown = QUALITY_COOLDOWN

\* ------------------------------------------------------------------ DecoderPool
\* the threads whose call is using a decoder
Using == {t \in Threads : th[t].pc = "use"}

\* C6: no decoder of the pool is in use by two calls (decode_at or metadata) at
\* the same time, and a decoder in use is not in the free list: it was removed
\* from the free list when it was handed out.
C6_DecoderExclusive ==
    /\ \A t1 \in Using, t2 \in Using : t1 # t2 => th[t1].dec # th[t2].dec
    /\ \A t \in Using : th[t].dec \notin Range(free_decoders)

\* C6 witness: both decoders are in use, by a decode_at and a metadata call, and
\* a third caller is waiting
C6_Witness ==
    /\ \E t1 \in Using, t2 \in Using : th[t1].op = "decode_at" /\ th[t2].op = "metadata"
    /\ pool_waiters # <<>>
    /\ free_decoders = <<>>

\* -------------------------------------------------------------- inference gate
\* C7: at any time at most inference_worker_count inference calls are executing
\* on the depth model, across all pipeline tasks and connections.
C7_AtMostWorkersExecuting ==
    Cardinality({c \in Callers : inf_job[c] = "running"}) <= max_workers

\* what the semaphore does bound: the tasks inside the "async with"
SlotsHeldBounded ==
    /\ Cardinality({c \in Callers : inf_pc[c] = "run"}) <= max_workers
    /\ semaphore # NoValue
        => semaphore = max_workers - Cardinality({c \in Callers : inf_pc[c] = "run"})


\* position of x in a sequence that holds it
IndexIn(seq, x) == CHOOSE i \in 1..Len(seq) : seq[i] = x

\* C1: the binary payloads written to the channel are payloads of dequeued
\* requests and appear in the order in which the processor dequeued their
\* requests, whatever order the pipeline tasks end in; a request without
\* payload is left out and the others keep their order.
C1_PayloadsInDequeueOrder ==
    /\ \A i \in 1..Len(sent) : \E j \in 1..Len(dequeued) : dequeued[j] = sent[i]
    /\ \A i, j \in 1..Len(sent) :
           i < j => IndexIn(dequeued, sent[i]) < IndexIn(dequeued, sent[j])

\* C1 case: the task of request 3 ended with its payload before the task of
\* request 1 did, request 2 gave no payload, and the channel carries the
\* payloads of 1 and 3 in this order
C1_Witness ==
    /\ sent = <<1, 3>>
    /\ task[2] = "nopayload"
    /\ overtaken

\* C4 (as stated): once stop is set no binary payload is written to the channel,
\* also not the payload of a task that ended before stop was set.
C4_NoPayloadAfterStop == ~leaked

\* the pipeline tasks of the connection that have not ended
InFlight == {t \in Requests : task[t] \in Unfinished}

\* C5: the number of unfinished pipeline tasks of a connection never exceeds
\* MAX_CONCURRENT_TASKS; at the cap the processor holds its request back until
\* one of the tasks has ended.
C5_AtMostCapUnfinished == Cardinality(InFlight) <= MAX_CONCURRENT_TASKS

\* C5 case: the cap is reached and the processor waits with a request in hand
C5_Witness ==
    /\ processor.pc = "capwait"
    /\ processor.request \in Requests
    /\ Cardinality(InFlight) = MAX_CONCURRENT_TASKS

\* the lowest step of the filtered ladder
LowestStep == steps_for(depth_process_res)[Len(steps_for(depth_process_res))]

\* C11 as stated: when every inference sample reported is 0.3 s, over any
\* sequence of telemetry updates the resolution never increases, and it
\* decreases at least once unless it sits on the lowest ladder step.
C11_Original ==
    /\ [][ResAfter <= ResBefore]_vars
    /\ (depth_process_res > LowestStep) => <>(ResBefore < depth_process_res)

\* C11 (amended): when every inference sample reported is 0.3 s, then from the
\* update that reports the first inference sample on the resolution never
\* increases, and once a sample has been reported a resolution above the lowest
\* ladder step decreases: it steps down until it sits on the lowest step.
C11_SlowInferenceDemotes ==
    /\ [][session'.infer_avg_s > UP_THRESHOLD => ResAfter <= ResBefore]_vars
    /\ (session.infer_avg_s > UP_THRESHOLD /\ ResBefore > LowestStep)
           ~> (ResBefore = LowestStep)

\* C11 case: slow samples have been reported and the resolution went down two
\* steps from the default
C11_Witness ==
    /\ session.infer_avg_s = SlowInfer
    /\ depth_process_res = 640
    /\ session.quality_process_res = 480

\* ------------------------------------------------------------------ depth cache
\* C12: for every capacity C, after any sequence of store_depth_frame and
\* get_cached_depth calls the depth buffer holds at most C frames, and a store
\* into a full buffer evicts the frame inserted first and keeps the others,
\* followed by the new frame, in insertion order.
C12_CacheBoundedEvictsOldest ==
    /\ [](Len(depth_buffer) <= video_cache_size)
    /\ [][(cache_call'.op = "store" /\ video_cache_size > 0
           /\ Len(depth_buffer) = video_cache_size)
          => depth_buffer' = Tail(depth_buffer) \o <<cache_call'.frame>>]_vars

\* C12 case: the third frame was stored into a buffer of capacity 2, which now
\* holds the second and the third
C12_Witness ==
    /\ video_cache_size = 2 /\ n_stores = 3 /\ cache_call.op = "store"
    /\ Len(depth_buffer) = 2 /\ depth_buffer[1].id = 2 /\ depth_buffer[2].id = 3

\* the positions of the buffer within tol of t
HitsOf(buffer, t, tol) == {i \in 1..Len(buffer) : Abs(buffer[i].timestamp_ms - t) <= tol}
NewestOf(hits) == CHOOSE i \in hits : \A j \in hits : i >= j

\* C13: a get_cached_depth with drop_on_hit that hits returns the newest entry
\* within the tolerance and removes exactly that entry and every older one, the
\* newer entries stay in order; a miss, or a call without drop_on_hit, leaves
\* the buffer unchanged.
C13_DropOnHitRemovesUpToHit ==
    [][cache_call'.op = "get"
       => LET hits == HitsOf(depth_buffer, cache_call'.time_ms, cache_call'.tolerance_ms)
          IN  IF hits # {} /\ cache_call'.drop_on_hit
              THEN /\ cache_call'.result = depth_buffer[NewestOf(hits)]
                   /\ depth_buffer' = SubSeq(depth_buffer, NewestOf(hits) + 1, Len(depth_buffer))
              ELSE depth_buffer' = depth_buffer]_vars

\* C13 case: a get with drop_on_hit returned the second frame of three and the
\* third is what is left
C13_Witness ==
    /\ cache_call.op = "get" /\ cache_call.drop_on_hit
    /\ cache_call.result.id = 2
    /\ video_cache_size = 3 /\ n_stores = 3
    /\ Len(depth_buffer) = 1 /\ depth_buffer[1].id = 3

\* a store of f immediately followed by get_cached_depth(f.timestamp_ms, tol,
\* drop_on_hit=false) returns f
StoreThenGetReturnsIt ==
    (/\ cache_call.op = "store" /\ cache_call'.op = "get"
     /\ cache_call'.time_ms = cache_call.frame.timestamp_ms
     /\ ~cache_call'.drop_on_hit)
        => cache_call'.result = cache_call.frame

\* C14 as stated: for every frame f, every tolerance >= 0 and every cache state,
\* store_depth_frame(f) immediately followed by get_cached_depth(f.timestamp_ms,
\* tol, drop_on_hit=false) returns f.
C14_Original == [][StoreThenGetReturnsIt]_vars

\* C14 (amended): the same for a buffer of capacity at least 1; a buffer of
\* capacity 0 keeps nothing and the get returns None.
C14_StoreThenGet ==
    [][IF video_cache_size >= 1 THEN StoreThenGetReturnsIt
       ELSE cache_call'.op = "get" => cache_call'.result = NoFrame]_vars

\* C14 case: the frame stored last was returned by a get without drop_on_hit
\* although an older frame with the same timestamp is in the buffer
C14_Witness ==
    /\ cache_call.op = "get" /\ ~cache_call.drop_on_hit
    /\ cache_call.result.id = n_stores
    /\ Len(depth_buffer) >= 2
    /\ depth_buffer[Len(depth_buffer)].id = n_stores
    /\ depth_buffer[Len(depth_buffer) - 1].timestamp_ms = cache_call.result.timestamp_ms

\* ----------------------------------------------------------------- FrameDecoder
\* C15 (as stated): for every t >= 0 and every decoder state, decode_at(t)
\* returns a frame whose time is >= t, or else, when no frame at or after t
\* exists, the last frame of the stream.
C15_FrameAtOrAfterOrLast ==
    fd_call.time_ms # NoValue
        => /\ fd_call.frame # 0
           /\ \/ frame_time(fd_call.frame) >= fd_call.time_ms
              \/ fd_call.frame = NFrames

\* ------------------------------------------------------------------ depth_stream
\* the requests read by the receiver that left the intake queue by eviction
Evicted ==
    {r \in 1..n_received : r \notin Range(request_queue.queue) /\ r \notin Range(dequeued)}

\* C16: a request evicted from the intake queue never gets a pipeline task and
\* never a payload; every payload written belongs to a request the processor
\* dequeued, no request gets two payloads, and so the payloads written never
\* outnumber the requests dequeued.
C16_NoPayloadForEvicted ==
    /\ \A r \in Evicted : task[r] = "none" /\ r \notin Range(sent)
    /\ \A r \in Requests : task[r] # "none" => r \in Range(dequeued)
    /\ Range(sent) \subseteq Range(dequeued)
    /\ Cardinality(Range(sent)) = Len(sent)
    /\ Len(sent) <= Len(dequeued)

\* C16 case: request 1 was evicted by request 3, its eviction was reported, and
\* the payloads of requests 2 and 3 were written
C16_Witness ==
    /\ 1 \in Evicted /\ drop_count = 1
    /\ dequeued = <<2, 3>> /\ sent = <<2, 3>>

\* the sender passes over the handle of a task that ended with res: it held the
\* handle, has let go of it, and was not cancelled by depth_stream in this step
SenderPasses(res) ==
    /\ sender.task # 0 /\ task[sender.task] = res
    /\ sender'.task = 0 /\ main_pc' = main_pc

\* C17: when the write of a payload to the channel fails, the sender signals
\* stop: a sender that has left its loop has stop set.
C17_FailedWriteSignalsStop == sender.pc = "done" => stop

\* C18: a decode failure or end-of-stream ends the pipeline task without payload
\* and without signalling stop; the sender passes over its handle writing
\* nothing, signals no stop and, unless stop was set by somebody else, waits
\* for the next handle; no payload is ever written for that request, and the
\* payloads of the other requests are written in request order.
C18_DecodeFailureSkipsRequest ==
    [][/\ \A t \in Requests :
            (task[t] = "decode" /\ task'[t] = "nopayload") => stop' = stop
       /\ SenderPasses("nopayload") =>
            /\ stop' = stop /\ sent' = sent
            /\ ~stop => sender'.pc = "wait"
       /\ \A t \in Requests : task'[t] = "nopayload" => t \notin Range(sent')
       /\ \A i, j \in 1..Len(sent') : i < j => sent'[i] < sent'[j]]_vars

\* C18 case: decoding failed for request 1, stop is not signalled, and the
\* payloads of the later requests 2 and 3 were written in order
C18_Witness ==
    /\ task[1] = "nopayload" /\ ~stop
    /\ sent = <<2, 3>> /\ sender.pc = "wait"

\* C19: a failed inference gives that request no payload and signals no stop:
\* the sender passes over the handle of the failed task, writes nothing, leaves
\* stop as it is and, unless stop was set by somebody else, waits for the next
\* handle.
C19_InferenceFailureSkipsRequest ==
    [][SenderPasses("failed") =>
            /\ stop' = stop /\ sent' = sent
            /\ ~stop => sender'.pc = "wait"]_vars

\* C20: a text message that does not parse as JSON is ignored: while the channel
\* is open the receiver keeps reading until depth_stream cancels it, and no step
\* in which only the receiver moves signals stop.
C20_MalformedIgnored ==
    [][(ws = "open" /\ receiver_pc = "recv" /\ receiver_pc' # "cancelled") =>
            /\ receiver_pc' = "recv"
            /\ (n_received' # n_received) => stop' = stop]_vars

\* the processor resumes with the request it dequeued and looks the session up
ProcessorLooksUp == processor.pc = "got" /\ processor'.pc # "got" /\ main_pc' = main_pc

\* C21: when the session is gone from the manager, the processor's handling of
\* the request it dequeued sends the error message (the channel being open),
\* signals stop, ends the processor and spawns no pipeline task; and no request
\* whose lookup comes after the removal ever gets a pipeline task.
C21_MissingSessionStops ==
    [][/\ (ProcessorLooksUp /\ ~session_present) =>
            /\ stop' /\ processor'.pc = "done"
            /\ ws = "open" => error_sent'
            /\ task' = task /\ active_tasks' = active_tasks /\ send_queue' = send_queue
       /\ (~session_present /\ processor.pc # "capwait") =>
            \A r \in Requests : task[r] = "none" => task'[r] = "none"]_vars

\* C21 case: the session was removed, request 1 was dequeued and answered with
\* the error message, the connection handler has returned, and neither request 1
\* nor request 2, still queued, got a pipeline task
C21_Witness ==
    /\ ~session_present /\ error_sent /\ stop /\ main_pc = "returned"
    /\ dequeued = <<1>> /\ request_queue.queue = <<2>>
    /\ task[1] = "none" /\ task[2] = "none"

\* ------------------------------------------------------------------ depth payload
\* the pixel of the last call clamped to [z_min, z_max], and its dequantized
\* value scale * x + bias, both multiplied by LEVELS
ClampedTimesLevels == clip(pk.pixel, pk.z_min, pk.z_max) * LEVELS
DequantizedTimesLevels == pk.scale_num * pk.encoded + pk.bias * LEVELS

StepSet == Range(steps_for(depth_process_res))
\* the ladder step next below v
NextLower(v) == CHOOSE s \in StepSet : s < v /\ \A r \in StepSet : r < v => r <= s
\* the ladder step nearest to v, the higher resolution of two equally near ones
NearestStep(v) ==
    CHOOSE s \in StepSet :
        \A r \in StepSet : Abs(s - v) < Abs(r - v) \/ (Abs(s - v) = Abs(r - v) /\ s >= r)
\* the rolling averages adjust_quality reads
AnyBad(self) ==
    \/ self.infer_avg_s > UP_THRESHOLD
    \/ self.queue_avg_s > QUEUE_UP_THRESHOLD
    \/ self.latency_ms > LATENCY_UP_THRESHOLD
AllGood(self) ==
    /\ self.infer_avg_s < DOWN_THRESHOLD
    /\ self.queue_avg_s < QUEUE_DOWN_THRESHOLD
    /\ self.latency_ms < LATENCY_DOWN_THRESHOLD

\* C23 as stated: an update with cooldown 0 and a metric above its demote
\* threshold lowers the resolution by exactly one ladder step, unless it is the
\* lowest step already, and never raises it.
C23_Original ==
    [][(session.quality_cooldown = 0 /\ AnyBad(session')) =>
            ResAfter = IF ResBefore = LowestStep THEN ResBefore ELSE NextLower(ResBefore)]_vars

\* C23 (amended): an update with cooldown 0 and a metric above its demote
\* threshold never raises the resolution; it moves it to the ladder step one
\* position below the ladder step nearest to the value held, or to that nearest
\* step when it is the lowest; a value that is itself a ladder step is lowered
\* by exactly one step unless it is the lowest.
C23_DemoteOnAnyBadMetric ==
    [][(session.quality_cooldown = 0 /\ AnyBad(session')) =>
            /\ ResAfter <= ResBefore
            /\ ResAfter = IF NearestStep(ResBefore) = LowestStep THEN LowestStep
                          ELSE NextLower(NearestStep(ResBefore))
            /\ ResBefore \in StepSet =>
                    ResAfter = IF ResBefore = LowestStep THEN ResBefore
                               ELSE NextLower(ResBefore)]_vars

\* C23 case: a demotion from 640 to 512 has just been made on the inference
\* average alone, queue wait and latency being below their promote thresholds
C23_Witness ==
    /\ depth_process_res = 640 /\ session.quality_process_res = 512
    /\ n_changes = 1 /\ since_change = 0
    /\ session.infer_avg_s > UP_THRESHOLD
    /\ session.queue_avg_s < QUEUE_DOWN_THRESHOLD
    /\ session.latency_ms < LATENCY_DOWN_THRESHOLD

\* C24: the resolution is raised only by an update made with cooldown 0 in which
\* all three of infer_avg < 0.08 s, queue_avg < 0.10 s and latency < 200 ms
\* hold; no other update increases it.
C24_PromoteOnlyWhenAllGood ==
    [][ResAfter > ResBefore =>
            /\ session.quality_cooldown = 0
            /\ AllGood(session')]_vars

\* C24 case: after a demotion from 640 to 512 the resolution has just been
\* raised back to 640
C24_Witness ==
    /\ depth_process_res = 640 /\ session.quality_process_res = 640
    /\ n_changes = 2 /\ since_change = 0
    /\ AllGood(session)

\* the filtered ladder has a single step: one ladder step at most is <= the
\* configured maximum
SingleStep == Cardinality(Allowed(depth_process_res)) <= 1
\* that step: the ladder step, or the configured maximum below the whole ladder
TheStep ==
    IF Allowed(depth_process_res) = {} THEN depth_process_res
    ELSE CHOOSE s \in Allowed(depth_process_res) : TRUE

\* C25 as stated: with a single-step ladder no update changes the resolution
\* away from its initial value, the configured depth_process_res, or sets the
\* cooldown.
C25_Original ==
    SingleStep => /\ ResBefore = depth_process_res
                  /\ session.quality_cooldown = 0

\* C25 (amended): with a single-step ladder whose step is the configured
\* depth_process_res the controller is a no-op: the resolution stays at its
\* initial value and the cooldown at 0. When the single step differs from the
\* configured value, the only change ever made is the one from the configured
\* value to that step, and the cooldown is set by that change alone.
C25_SingleStepLadder ==
    [][SingleStep =>
        /\ TheStep = depth_process_res =>
                ResAfter = ResBefore /\ session'.quality_cooldown = 0
        /\ ResAfter # ResBefore =>
                ResBefore = depth_process_res /\ ResAfter = TheStep
        /\ session'.quality_cooldown > session.quality_cooldown =>
                ResAfter # ResBefore]_vars

\* C25 case: the configured maximum is below the ladder, the rolling metrics are
\* above the demote thresholds, and update after update left the value alone
C25_Witness ==
    /\ SingleStep /\ TheStep = depth_process_res
    /\ session.quality_process_res = depth_process_res
    /\ session.quality_cooldown = 0
    /\ session.infer_avg_s > UP_THRESHOLD /\ session.queue_avg_s > QUEUE_UP_THRESHOLD
    /\ session.latency_ms > LATENCY_UP_THRESHOLD

\* ------------------------------------------------------------------ DecoderPool
\* decoder d can stream forward to time t: its last frame time is set and t is
\* 0 to 1000 ms ahead of it
StreamsForward(d, t) ==
    /\ d.last_frame_time_ms # NoValue
    /\ 0 <= t - d.last_frame_time_ms /\ t - d.last_frame_time_ms <= 1000

\* thread t takes a decoder for a decode_at call in this step
TakesForDecode(t) ==
    /\ th[t].pc \in {"idle", "woken"}
    /\ th'[t].pc = "use" /\ th'[t].op = "decode_at"

\* the decoder the rule selects for time t among the free decoders
RuleSelects(t) ==
    LET fit == {i \in 1..Len(free_decoders) :
                    StreamsForward(decoders[free_decoders[i]], t)}
    IN  IF fit # {} THEN free_decoders[CHOOSE i \in fit : \A j \in fit : i <= j]
        ELSE IF released # <<>> THEN released[Len(released)]
        ELSE free_decoders[Len(free_decoders)]

\* C26: decode_at(t) takes, among the decoders free at that moment, the first in
\* free-list order that can stream forward to t, and if there is none the free
\* decoder released most recently (the last of the list when none of them was
\* released yet); the others stay free in their order; when the call ends, by
\* returning or by raising, its decoder is appended to the free list.
C26_SelectionAndReturn ==
    [][\A t \in Threads :
        /\ TakesForDecode(t) =>
            /\ free_decoders # <<>>
            /\ th'[t].dec = RuleSelects(th'[t].time_ms)
            /\ free_decoders' = Without(free_decoders, th'[t].dec)
        /\ (th[t].pc = "use" /\ th'[t].pc # "use") =>
            free_decoders' = Append(free_decoders, th[t].dec)]_vars

\* C26 case: a decode_at call is using a decoder it took because it could stream
\* forward, while a decoder released after that one stayed free
C26_Witness ==
    \E t \in Threads :
        /\ th[t].pc = "use" /\ th[t].op = "decode_at"
        /\ StreamsForward(decoders[th[t].dec], th[t].time_ms)
        /\ released # <<>>
        /\ ~StreamsForward(decoders[released[Len(released)]], th[t].time_ms)

\* the threads woken by notify() that have not tested the free list again yet
Woken == {t \in Threads : th[t].pc = "woken"}

\* C27: a call waits only when it finds the free list empty, and leaves the wait
\* only with a decoder; no wake-up is lost: while a caller waits, every free
\* decoder has a woken caller on its way to it; and under fair scheduling every
\* waiting caller obtains a decoder: again and again no caller is left waiting.
C27_WaiterObtainsDecoder ==
    /\ [][\A t \in Threads :
            /\ (th[t].pc # "wait" /\ th'[t].pc = "wait") => free_decoders = <<>>
            /\ th[t].pc \in {"wait", "woken"} => th'[t].pc \in {"wait", "woken", "use"}]_vars
    /\ [](pool_waiters # <<>> => Len(free_decoders) <= Cardinality(Woken))
    /\ []<>(\A t \in Threads : th[t].pc \notin {"wait", "woken"})

\* C27 case: two callers wait for the one decoder of the pool
C27_Witness ==
    /\ Len(pool_waiters) = 2 /\ free_decoders = <<>>
    /\ Cardinality(Using) = 1

\* ------------------------------------------------------------------ depth_stream
\* the pipeline tasks in their decode step: their call of DecoderPool.decode_at
\* is waiting for a thread, running, or done and not yet seen by the task
Decoding == {t \in Requests : task[t] = "decode"}

LivePcs == {"recv", "wait", "got", "capwait", "have", "await", "sleep"}
\* depth_stream returns in this step
Returns == main_pc = "wait" /\ main_pc' = "returned"

\* C29: once stop is signalled the connection handler returns: the step in
\* which it does leaves as cancelled the receiver, the processor, the sender,
\* the reporter and every unfinished pipeline task that had not ended by
\* itself, and after it none of them is running.
C29_StopCancelsAndReturns ==
    /\ [][Returns =>
            /\ receiver_pc \in LivePcs => receiver_pc' = "cancelled"
            /\ processor.pc \in LivePcs => processor'.pc = "cancelled"
            /\ sender.pc \in LivePcs => sender'.pc = "cancelled"
            /\ reporter_pc \in LivePcs => reporter_pc' = "cancelled"
            /\ \A t \in InFlight : task'[t] = "cancelled"]_vars
    /\ [](main_pc = "returned" =>
            /\ {receiver_pc, processor.pc, sender.pc, reporter_pc} \cap LivePcs = {}
            /\ InFlight = {} /\ active_tasks = {})
    /\ stop ~> (main_pc = "returned")

\* C29 case: the client disconnected, the receiver signalled stop and ended, and
\* the handler has returned having cancelled the processor at the cap, the
\* sender, the reporter and two pipeline tasks
C29_Witness ==
    /\ main_pc = "returned" /\ ws = "closed" /\ receiver_pc = "done"
    /\ processor.pc = "cancelled" /\ sender.pc = "cancelled" /\ reporter_pc = "cancelled"
    /\ Cardinality({t \in Requests : task[t] = "cancelled"}) = 2

\* C30: once a payload has been written to the channel, session.telemetry
\* holds the ws_send_s entry of the write.
C30_SendDurationInTelemetry == sent # <<>> => "ws_send_s" \in telemetry

\* the evictions of the intake queue so far: the requests received that are
\* neither in the queue nor dequeued
Evictions == n_received - qsize(request_queue) - Len(dequeued)
\* the processor, with the session in hand, ends its report of the drops
ReportsDrops ==
    /\ processor.pc = "got" /\ processor'.pc \notin {"got", "cancelled"}
    /\ session_present

\* C31: drop_count never decreases; every eviction is either in drop_count or
\* still in the queue's dropped_count, never in both; and when the processor
\* has finished its report and reset, drop_count is the number of evictions so
\* far and the queue's counter is zero.
C31_EvictionsCountedOnce ==
    /\ [][/\ drop_count' >= drop_count
          /\ ReportsDrops =>
                /\ drop_count' = Evictions'
                /\ request_queue'.dropped_count = 0]_vars
    /\ [](drop_count + request_queue.dropped_count = Evictions)

\* C31 case: the receiver evicted a request and went on enqueueing, and the
\* processor has reported the eviction and reset the queue's counter
C31_Witness ==
    /\ Evictions = 1 /\ drop_count = 1 /\ request_queue.dropped_count = 0
    /\ n_received = MaxRequests /\ processor.pc = "wait"

\* ----------------------------------------------------------- SessionManager
\* C32: a session that leaves the session map has its decoder pool closed by
\* the step that removes it; no session in the map has a closed pool; and
\* get(id) returns None for every id that was removed.
C32_RemovedSessionsAreClosed ==
    /\ [][\A id \in sessions \ sessions' : id \in closed_pools']_vars
    /\ [](sessions \cap closed_pools = {})
    /\ [](\A id \in popped : manager_get(sessions, id) = NoValue)

\* C32 case: session 1 was removed by delete_session or by the clear_cache of a
\* later upload, session 2 by the other of the two, and session 3 is in the map
C32_Witness ==
    /\ popped = {1, 2} /\ closed_pools = {1, 2} /\ sessions = {3}

\* ------------------------------------------------------------------ DecoderPool
\* the calls that hold decoder d
Holders(d) == {t \in Using : th[t].dec = d}

\* C33: the free list of an open pool holds no decoder twice; every decoder of
\* the pool is in the free list or held by exactly one running call, never
\* both; so the free decoders and the decoders in use add up to the pool size.
C33_PoolPartition ==
    /\ Cardinality(Range(free_decoders)) = Len(free_decoders)
    /\ \A d \in Decoders :
          IF d \in Range(free_decoders)
          THEN Holders(d) = {}
          ELSE Cardinality(Holders(d)) = 1
    /\ Len(free_decoders) + Cardinality(Using) = NDecoders

\* C33 case: a call holds decoder 2 while decoder 1 has been returned to the
\* free list and the caller woken for it has not taken it yet
C33_Witness ==
    /\ free_decoders = <<1>> /\ released = <<1>>
    /\ \E t \in Using : th[t].dec = 2
    /\ Woken # {}

\* C34 (as stated): once close() has run the free list stays empty, so that no
\* closed decoder is put back or handed out.
C34_FreeListEmptyAfterClose == pool_closed => free_decoders = <<>>

\* ------------------------------------------------------------------ depth_stream
\* the pipeline tasks whose inference is in the executor, inside the semaphore
Inferring == {t \in Requests : task[t] = "infer"}
\* request r is settled: its task has ended and the sender has taken its handle
\* and written its payload or skipped it
Settled(r) ==
    /\ task[r] \in {"payload", "nopayload"}
    /\ r \notin Range(send_queue) /\ sender.task # r
    /\ task[r] = "payload" => r \in Range(sent)

\* C35: as long as stop is not signalled, every request the processor has
\* dequeued is settled in the end: again and again stop is set or every
\* dequeued request has its task ended and its payload written or skipped. The
\* gates are never overfilled: at most INFERENCE_WORKER_COUNT tasks are inside
\* the semaphore, a task waits for it only while it is full or its wake-up is
\* on the way, and at most MAX_CONCURRENT_TASKS tasks are unfinished.
C35_DequeuedRequestsSettled ==
    /\ [](Cardinality(Inferring) <= INFERENCE_WORKER_COUNT)
    /\ [](Cardinality(InFlight) <= MAX_CONCURRENT_TASKS)
    /\ []<>(stop \/ \A r \in Range(dequeued) : Settled(r))

\* C35 case: all three gates are engaged with stop clear: the cap is reached and
\* the processor holds a request back, one task is inside the semaphore, another
\* waits for it, and the sender awaits the task of the oldest request
C35_Witness ==
    /\ ~stop /\ processor.pc = "capwait" /\ sender.pc = "await"
    /\ Cardinality(Inferring) = INFERENCE_WORKER_COUNT
    /\ \E t \in Requests : task[t] = "semwait"

=============================================================================
